---- MODULE Spec2Model ----
(***************************************************************************)
(* gin-short-url: the in-memory registry (storage.MemoryStorage), the      *)
(* base-62 encoder (utils) and the URL service (services.URLService) that  *)
(* calls them, as a state machine of goroutines calling the operations.    *)
(*                                                                         *)
(* Strings are sequences of one-character strings, so that encoding,       *)
(* validation and normalisation are computed character by character as     *)
(* the code does.  Pointers to models.URL values are indices into heap;    *)
(* the three maps of the registry hold pointers to shared records, as in   *)
(* the Go code.  Every shared-memory access of a registry method is a step *)
(* of its own, so that the RWMutex is what keeps the steps of one critical *)
(* section together.                                                       *)
(***************************************************************************)
EXTENDS Integers, Sequences, FiniteSets, TLC

VARIABLES
    heap,       \* allocated models.URL values: pointer p is heap[p]
    urls,       \* MemoryStorage.urls:       shortCode   -> pointer
    urlsByID,   \* MemoryStorage.urlsByID:   id          -> pointer
    urlsByOrig, \* MemoryStorage.urlsByOrig: originalURL -> pointer
    nextID,     \* MemoryStorage.nextID
    mutex,      \* MemoryStorage.mutex: [w: writer or 0, r: set of readers]
    now,        \* the wall clock, what time.Now() returns
    pc,         \* per goroutine: the statement it is at
    svc,        \* per goroutine: the URLService method it is in, or "none"
    req,        \* per goroutine: the argument of the URLService method
    urlRecord,  \* per goroutine: the URLService method's local urlRecord
    arg,        \* per goroutine: the argument of the registry method
    loc,        \* per goroutine: the local *models.URL (0 is nil)
    tmp,        \* per goroutine: the value loaded by url.AccessCount++
    err,        \* per goroutine: the error the registry method returns
    ret,        \* per goroutine: what its last completed call returned
    calls,      \* number of registry and service calls started so far
    incOK,      \* history: IncrementAccessCount(c) calls that returned nil
    redirOK     \* history: GetOriginalURL(c) calls that returned a URL

vars == <<heap, urls, urlsByID, urlsByOrig, nextID, mutex, now, pc, svc, req,
          urlRecord, arg, loc, tmp, err, ret, calls, incOK, redirOK>>

store == <<heap, urls, urlsByID, urlsByOrig, nextID>>

----------------------------------------------------------------------------
(* Bounds of the model *)

NumThreads == 2
MaxCalls == 3
MaxSeq == 62
MaxPow == 10
MaxLongLen == 12
MaxStrLen == 3

Threads == 1..NumThreads

Nil == 0

----------------------------------------------------------------------------
(* utils/base62.go *)

\* the alphabet with the capitals before the small letters
base62CharsUpperFirst ==
    << "0","1","2","3","4","5","6","7","8","9",
       "A","B","C","D","E","F","G","H","I","J","K","L","M",
       "N","O","P","Q","R","S","T","U","V","W","X","Y","Z",
       "a","b","c","d","e","f","g","h","i","j","k","l","m",
       "n","o","p","q","r","s","t","u","v","w","x","y","z" >>

base62Chars ==
    << "0","1","2","3","4","5","6","7","8","9",
       "a","b","c","d","e","f","g","h","i","j","k","l","m",
       "n","o","p","q","r","s","t","u","v","w","x","y","z",
       "A","B","C","D","E","F","G","H","I","J","K","L","M",
       "N","O","P","Q","R","S","T","U","V","W","X","Y","Z" >>

base == 62

\* A uint64 is four 16-bit limbs, least significant first: the arithmetic of
\* the encoder is carried out limb by limb and wraps at 2^64 as Go's does.
Limb == 65536

Zero64 == <<0, 0, 0, 0>>
One64 == <<1, 0, 0, 0>>
MaxUint64 == <<Limb - 1, Limb - 1, Limb - 1, Limb - 1>>

\* uint64(n), for an n below 2^31
U64(n) == <<n % Limb, (n \div Limb) % Limb, 0, 0>>

\* num / d and num % d for a divisor below 2^15: long division from the top limb
DivMod64(num, d) ==
    LET a4 == num[4]
        a3 == (a4 % d) * Limb + num[3]
        a2 == (a3 % d) * Limb + num[2]
        a1 == (a2 % d) * Limb + num[1]
    IN  [quo |-> <<a1 \div d, a2 \div d, a3 \div d, a4 \div d>>, rem |-> a1 % d]

Div64(num, d) == DivMod64(num, d).quo
Mod64(num, d) == DivMod64(num, d).rem

\* x * m for a factor m below 2^15; the carry out of the top limb is dropped
Mul64(x, m) ==
    LET p1 == x[1] * m
        p2 == x[2] * m + (p1 \div Limb)
        p3 == x[3] * m + (p2 \div Limb)
        p4 == x[4] * m + (p3 \div Limb)
    IN  <<p1 % Limb, p2 % Limb, p3 % Limb, p4 % Limb>>

\* x + y; the carry out of the top limb is dropped
Add64(x, y) ==
    LET s1 == x[1] + y[1]
        s2 == x[2] + y[2] + (s1 \div Limb)
        s3 == x[3] + y[3] + (s2 \div Limb)
        s4 == x[4] + y[4] + (s3 \div Limb)
    IN  <<s1 % Limb, s2 % Limb, s3 % Limb, s4 % Limb>>

Reverse(s) == [i \in 1..Len(s) |-> s[Len(s) + 1 - i]]

\* the digit loop of EncodeBase62 running while num >= base
RECURSIVE EncodeLoopStopsEarly(_, _)
EncodeLoopStopsEarly(num, result) ==
    IF Div64(num, base) # Zero64
    THEN EncodeLoopStopsEarly(Div64(num, base),
                              Append(result, base62Chars[Mod64(num, base) + 1]))
    ELSE result

RECURSIVE EncodeLoop(_, _)
EncodeLoop(num, result) ==
    IF num # Zero64
    THEN EncodeLoop(Div64(num, base),
                    Append(result, base62Chars[Mod64(num, base) + 1]))
    ELSE result

\* EncodeBase62 without the reversal of lines 26-30
EncodeBase62NoReverse(num) ==
    IF num = Zero64 THEN <<"0">> ELSE EncodeLoop(num, <<>>)

EncodeBase62(num) ==
    IF num = Zero64 THEN <<"0">> ELSE Reverse(EncodeLoop(num, <<>>))

\* The place of a character in the alphabet.  Within each of the ranges
\* 0-9, a-z and A-Z the alphabet is in byte order, so a difference of places
\* is the difference of the bytes (char - '0', char - 'a', char - 'A').
CharIndex(c) == CHOOSE i \in 1..Len(base62Chars) : base62Chars[i] = c

Digits == {base62Chars[i] : i \in 1..10}
Lowers == {base62Chars[i] : i \in 11..36}
Uppers == {base62Chars[i] : i \in 37..62}

\* IsValidBase62 without the len(s) == 0 check of line 65
IsValidBase62NoEmptyCheck(s) ==
    \A i \in 1..Len(s) : s[i] \in Digits \cup Lowers \cup Uppers

\* IsValidBase62 looking at the first character only
IsValidBase62FirstOnly(s) ==
    /\ Len(s) # 0
    /\ s[1] \in Digits \cup Lowers \cup Uppers

IsValidBase62(s) ==
    /\ Len(s) # 0
    /\ \A i \in 1..Len(s) : s[i] \in Digits \cup Lowers \cup Uppers

\* DecodeBase62, lines 41-58: the characters from right to left; a character
\* outside the three ranges ends the call with 0 (line 53).
\* the loop of DecodeBase62 ending at the first "0" it meets
RECURSIVE DecodeLoopStopsAtZero(_, _, _, _)
DecodeLoopStopsAtZero(encoded, i, result, power) ==
    IF i < 1 \/ encoded[i] = "0" THEN result
    ELSE LET char == encoded[i]
             value == IF char \in Digits THEN CharIndex(char) - CharIndex("0")
                      ELSE IF char \in Lowers
                      THEN (CharIndex(char) - CharIndex("a")) + 10
                      ELSE (CharIndex(char) - CharIndex("A")) + 36
         IN  IF char \notin Digits \cup Lowers \cup Uppers
             THEN Zero64
             ELSE DecodeLoopStopsAtZero(encoded, i - 1, Add64(result, Mul64(power, value)),
                                        Mul64(power, base))

RECURSIVE DecodeLoop(_, _, _, _)
DecodeLoop(encoded, i, result, power) ==
    IF i < 1 THEN result
    ELSE LET char == encoded[i]
             value == IF char \in Digits THEN CharIndex(char) - CharIndex("0")
                      ELSE IF char \in Lowers
                      THEN (CharIndex(char) - CharIndex("a")) + 10
                      ELSE (CharIndex(char) - CharIndex("A")) + 36
         IN  IF char \notin Digits \cup Lowers \cup Uppers
             THEN Zero64
             ELSE DecodeLoop(encoded, i - 1, Add64(result, Mul64(power, value)),
                             Mul64(power, base))

DecodeBase62(encoded) == DecodeLoop(encoded, Len(encoded), Zero64, One64)

----------------------------------------------------------------------------
(* storage.MemoryStorage *)

ErrNil == "nil"
StorageErrURLNotFound == "storage.ErrURLNotFound"

\* declared in line 14 and returned by no method
ErrURLExists == "storage.ErrURLExists"

NoArg == <<>>
NoRet == [arg |-> NoArg, err |-> ErrNil, op |-> "none", rec |-> Nil, val |-> Nil]

\* sync.RWMutex
\* RLock admitting a reader while a writer holds the lock
RLockIgnoresWriter(t) == mutex' = [mutex EXCEPT !.r = @ \cup {t}]

Lock(t)    == mutex.w = 0 /\ mutex.r = {} /\ mutex' = [mutex EXCEPT !.w = t]
Unlock(t)  == mutex' = [mutex EXCEPT !.w = 0]
\* RLock that waits for the other readers too
RLockExclusive(t) == mutex.w = 0 /\ mutex.r = {} /\ mutex' = [mutex EXCEPT !.r = @ \cup {t}]
RLock(t)   == mutex.w = 0 /\ mutex' = [mutex EXCEPT !.r = @ \cup {t}]
RUnlock(t) == mutex' = [mutex EXCEPT !.r = @ \ {t}]

\* The statement a goroutine is at moves on; the named locals are untouched.
Goto(t, label) == pc' = [pc EXCEPT ![t] = label]

\* A call returns to the goroutine's top level: its locals die, the result is
\* what the caller holds.
Return(t, r) ==
    /\ ret' = [ret EXCEPT ![t] = r]
    /\ pc' = [pc EXCEPT ![t] = "idle"]
    /\ svc' = [svc EXCEPT ![t] = "none"]
    /\ req' = [req EXCEPT ![t] = NoArg]
    /\ urlRecord' = [urlRecord EXCEPT ![t] = Nil]
    /\ arg' = [arg EXCEPT ![t] = NoArg]
    /\ loc' = [loc EXCEPT ![t] = Nil]
    /\ tmp' = [tmp EXCEPT ![t] = 0]
    /\ err' = [err EXCEPT ![t] = ErrNil]

\* A goroutine calls a registry method directly; the result of its previous
\* call is dropped.
Enter(t, label, a) ==
    /\ pc[t] = "idle"
    /\ calls' = calls + 1
    /\ pc' = [pc EXCEPT ![t] = label]
    /\ arg' = [arg EXCEPT ![t] = a]
    /\ ret' = [ret EXCEPT ![t] = NoRet]
    /\ UNCHANGED <<svc, req, urlRecord, loc, tmp, err>>

\* NewMemoryStorage with the counter left at the zero value
NewMemoryStorageFromZero ==
    /\ heap = <<>>
    /\ urls = <<>>
    /\ urlsByID = <<>>
    /\ urlsByOrig = <<>>
    /\ nextID = 0
    /\ mutex = [r |-> {}, w |-> 0]

NewMemoryStorage ==
    /\ heap = <<>>
    /\ urls = <<>>
    /\ urlsByID = <<>>
    /\ urlsByOrig = <<>>
    /\ nextID = 1
    /\ mutex = [r |-> {}, w |-> 0]

\* Save taking the lock in read mode
SaveLockShared(t) ==
    /\ pc[t] = "save_lock"
    /\ RLock(t)
    /\ Goto(t, "save_check")
    /\ UNCHANGED <<store, now, svc, req, urlRecord, arg, loc, tmp, err, ret, calls, incOK,
                   redirOK>>

\* Save, line 38: s.mutex.Lock()
SaveLock(t) ==
    /\ pc[t] = "save_lock"
    /\ Lock(t)
    /\ Goto(t, "save_check")
    /\ UNCHANGED <<store, now, svc, req, urlRecord, arg, loc, tmp, err, ret, calls, incOK, redirOK>>

\* Save without the dedup check of lines 42-44
SaveCheckNoDedup(t) ==
    /\ pc[t] = "save_check"
    /\ heap' = Append(heap, [ID          |-> nextID,
                             OriginalURL |-> arg[t],
                             ShortCode   |-> EncodeBase62(U64(nextID)),
                             CreatedAt   |-> now,
                             AccessCount |-> 0])
    /\ loc' = [loc EXCEPT ![t] = Len(heap) + 1]
    /\ Goto(t, "save_ins_urls")
    /\ UNCHANGED <<urls, urlsByID, urlsByOrig, nextID, mutex, now, svc, req, urlRecord,
                   arg, tmp, err, ret, calls, incOK, redirOK>>

\* Save whose dedup path hands the existing record back with its counter reset
SaveCheckReset(t) ==
    /\ pc[t] = "save_check"
    /\ IF arg[t] \in DOMAIN urlsByOrig
       THEN /\ loc' = [loc EXCEPT ![t] = urlsByOrig[arg[t]]]
            /\ heap' = [heap EXCEPT ![urlsByOrig[arg[t]]].AccessCount = 0]
            /\ Goto(t, "save_unlock")
       ELSE /\ heap' = Append(heap, [ID          |-> nextID,
                                     OriginalURL |-> arg[t],
                                     ShortCode   |-> EncodeBase62(U64(nextID)),
                                     CreatedAt   |-> now,
                                     AccessCount |-> 0])
            /\ loc' = [loc EXCEPT ![t] = Len(heap) + 1]
            /\ Goto(t, "save_ins_urls")
    /\ UNCHANGED <<urls, urlsByID, urlsByOrig, nextID, mutex, now, svc, req, urlRecord,
                   arg, tmp, err, ret, calls, incOK, redirOK>>

\* Save whose dedup path spends an id
SaveCheckDupAdvances(t) ==
    /\ pc[t] = "save_check"
    /\ IF arg[t] \in DOMAIN urlsByOrig
       THEN /\ loc' = [loc EXCEPT ![t] = urlsByOrig[arg[t]]]
            /\ nextID' = nextID + 1
            /\ Goto(t, "save_unlock")
            /\ UNCHANGED heap
       ELSE /\ heap' = Append(heap, [ID          |-> nextID,
                                     OriginalURL |-> arg[t],
                                     ShortCode   |-> EncodeBase62(U64(nextID)),
                                     CreatedAt   |-> now,
                                     AccessCount |-> 0])
            /\ loc' = [loc EXCEPT ![t] = Len(heap) + 1]
            /\ Goto(t, "save_ins_urls")
            /\ UNCHANGED nextID
    /\ UNCHANGED <<urls, urlsByID, urlsByOrig, mutex, now, svc, req, urlRecord,
                   arg, tmp, err, ret, calls, incOK, redirOK>>

\* Save refusing a URL that is stored already: no record, ErrURLExists
SaveCheckExists(t) ==
    /\ pc[t] = "save_check"
    /\ IF arg[t] \in DOMAIN urlsByOrig
       THEN /\ loc' = [loc EXCEPT ![t] = Nil]
            /\ err' = [err EXCEPT ![t] = ErrURLExists]
            /\ Goto(t, "save_unlock")
            /\ UNCHANGED heap
       ELSE /\ heap' = Append(heap, [ID          |-> nextID,
                                     OriginalURL |-> arg[t],
                                     ShortCode   |-> EncodeBase62(U64(nextID)),
                                     CreatedAt   |-> now,
                                     AccessCount |-> 0])
            /\ loc' = [loc EXCEPT ![t] = Len(heap) + 1]
            /\ Goto(t, "save_ins_urls")
            /\ UNCHANGED err
    /\ UNCHANGED <<urls, urlsByID, urlsByOrig, nextID, mutex, now, svc, req, urlRecord,
                   arg, tmp, ret, calls, incOK, redirOK>>

\* Save, lines 42-53: the dedup check, and the new record when there is none
SaveCheck(t) ==
    /\ pc[t] = "save_check"
    /\ IF arg[t] \in DOMAIN urlsByOrig
       THEN /\ loc' = [loc EXCEPT ![t] = urlsByOrig[arg[t]]]
            /\ Goto(t, "save_unlock")
            /\ UNCHANGED heap
       ELSE /\ heap' = Append(heap, [ID          |-> nextID,
                                     OriginalURL |-> arg[t],
                                     ShortCode   |-> EncodeBase62(U64(nextID)),
                                     CreatedAt   |-> now,
                                     AccessCount |-> 0])
            /\ loc' = [loc EXCEPT ![t] = Len(heap) + 1]
            /\ Goto(t, "save_ins_urls")
    /\ UNCHANGED <<urls, urlsByID, urlsByOrig, nextID, mutex, now, svc, req, urlRecord,
                   arg, tmp, err, ret, calls, incOK, redirOK>>

\* Save keying the by-code index with the original URL
SaveInsUrlsByOrig(t) ==
    /\ pc[t] = "save_ins_urls"
    /\ urls' = (heap[loc[t]].OriginalURL :> loc[t]) @@ urls
    /\ Goto(t, "save_ins_id")
    /\ UNCHANGED <<heap, urlsByID, urlsByOrig, nextID, mutex, now, svc, req, urlRecord, arg,
                   loc, tmp, err, ret, calls, incOK, redirOK>>

\* Save releasing the lock as soon as the by-code index holds the record
SaveInsUrlsUnlock(t) ==
    /\ pc[t] = "save_ins_urls"
    /\ urls' = (heap[loc[t]].ShortCode :> loc[t]) @@ urls
    /\ Unlock(t)
    /\ Goto(t, "save_ins_id")
    /\ UNCHANGED <<heap, urlsByID, urlsByOrig, nextID, now, svc, req, urlRecord, arg, loc,
                   tmp, err, ret, calls, incOK, redirOK>>

\* Save, line 56: s.urls[url.ShortCode] = url
SaveInsUrls(t) ==
    /\ pc[t] = "save_ins_urls"
    /\ urls' = (heap[loc[t]].ShortCode :> loc[t]) @@ urls
    /\ Goto(t, "save_ins_id")
    /\ UNCHANGED <<heap, urlsByID, urlsByOrig, nextID, mutex, now, svc, req, urlRecord, arg, loc,
                   tmp, err, ret, calls, incOK, redirOK>>

\* Save, line 57: s.urlsByID[url.ID] = url
SaveInsByID(t) ==
    /\ pc[t] = "save_ins_id"
    /\ urlsByID' = (heap[loc[t]].ID :> loc[t]) @@ urlsByID
    /\ Goto(t, "save_ins_orig")
    /\ UNCHANGED <<heap, urls, urlsByOrig, nextID, mutex, now, svc, req, urlRecord, arg, loc,
                   tmp, err, ret, calls, incOK, redirOK>>

\* Save, line 58: s.urlsByOrig[originalURL] = url
SaveInsByOrig(t) ==
    /\ pc[t] = "save_ins_orig"
    /\ urlsByOrig' = (arg[t] :> loc[t]) @@ urlsByOrig
    /\ Goto(t, "save_next")
    /\ UNCHANGED <<heap, urls, urlsByID, nextID, mutex, now, svc, req, urlRecord, arg, loc,
                   tmp, err, ret, calls, incOK, redirOK>>

\* Save without the s.nextID++ of line 60
SaveNextIDSkip(t) ==
    /\ pc[t] = "save_next"
    /\ Goto(t, "save_unlock")
    /\ UNCHANGED <<store, mutex, now, svc, req, urlRecord, arg, loc, tmp, err, ret, calls,
                   incOK, redirOK>>

\* Save, line 60: s.nextID++
SaveNextID(t) ==
    /\ pc[t] = "save_next"
    /\ nextID' = nextID + 1
    /\ Goto(t, "save_unlock")
    /\ UNCHANGED <<heap, urls, urlsByID, urlsByOrig, mutex, now, svc, req, urlRecord, arg, loc,
                   tmp, err, ret, calls, incOK, redirOK>>

\* GetByShortCode, line 66: s.mutex.RLock()
GetByShortCodeRLock(t) ==
    /\ pc[t] = "gsc_rlock"
    /\ RLock(t)
    /\ Goto(t, "gsc_body")
    /\ UNCHANGED <<store, now, svc, req, urlRecord, arg, loc, tmp, err, ret, calls, incOK, redirOK>>

\* GetByShortCode answering an absent code with no error
GetByShortCodeBodyZero(t) ==
    /\ pc[t] = "gsc_body"
    /\ loc' = [loc EXCEPT ![t] = IF arg[t] \in DOMAIN urls THEN urls[arg[t]] ELSE Nil]
    /\ err' = [err EXCEPT ![t] = ErrNil]
    /\ Goto(t, "gsc_runlock")
    /\ UNCHANGED <<store, mutex, now, svc, req, urlRecord, arg, tmp, ret, calls, incOK,
                   redirOK>>

\* GetByShortCode finding the record whose id the code decodes to
GetByShortCodeBodyDecoded(t) ==
    /\ pc[t] = "gsc_body"
    /\ IF \E p \in 1..Len(heap) : U64(heap[p].ID) = DecodeBase62(arg[t]) /\ heap[p].ID < nextID
       THEN /\ loc' = [loc EXCEPT ![t] = CHOOSE p \in 1..Len(heap) :
                                             U64(heap[p].ID) = DecodeBase62(arg[t])]
            /\ err' = [err EXCEPT ![t] = ErrNil]
       ELSE /\ loc' = [loc EXCEPT ![t] = Nil]
            /\ err' = [err EXCEPT ![t] = StorageErrURLNotFound]
    /\ Goto(t, "gsc_runlock")
    /\ UNCHANGED <<store, mutex, now, svc, req, urlRecord, arg, tmp, ret, calls, incOK, redirOK>>

\* GetByShortCode, lines 69-74
GetByShortCodeBody(t) ==
    /\ pc[t] = "gsc_body"
    /\ IF arg[t] \in DOMAIN urls
       THEN /\ loc' = [loc EXCEPT ![t] = urls[arg[t]]]
            /\ err' = [err EXCEPT ![t] = ErrNil]
       ELSE /\ loc' = [loc EXCEPT ![t] = Nil]
            /\ err' = [err EXCEPT ![t] = StorageErrURLNotFound]
    /\ Goto(t, "gsc_runlock")
    /\ UNCHANGED <<store, mutex, now, svc, req, urlRecord, arg, tmp, ret, calls, incOK, redirOK>>

\* GetByID, line 79: s.mutex.RLock()
GetByIDRLock(t) ==
    /\ pc[t] = "gid_rlock"
    /\ RLock(t)
    /\ Goto(t, "gid_body")
    /\ UNCHANGED <<store, now, svc, req, urlRecord, arg, loc, tmp, err, ret, calls, incOK, redirOK>>

\* GetByID, lines 82-87; the id it is called with is a uint64
GetByIDBody(t) ==
    /\ pc[t] = "gid_body"
    /\ IF \E i \in DOMAIN urlsByID : U64(i) = arg[t]
       THEN /\ loc' = [loc EXCEPT ![t] =
                           urlsByID[CHOOSE i \in DOMAIN urlsByID : U64(i) = arg[t]]]
            /\ err' = [err EXCEPT ![t] = ErrNil]
       ELSE /\ loc' = [loc EXCEPT ![t] = Nil]
            /\ err' = [err EXCEPT ![t] = StorageErrURLNotFound]
    /\ Goto(t, "gid_runlock")
    /\ UNCHANGED <<store, mutex, now, svc, req, urlRecord, arg, tmp, ret, calls, incOK, redirOK>>

\* GetByID, line 80 (deferred): s.mutex.RUnlock(), and the return
GetByIDRUnlock(t) ==
    /\ pc[t] = "gid_runlock"
    /\ RUnlock(t)
    /\ Return(t, [arg |-> arg[t], err |-> err[t], op |-> "GetByID", rec |-> loc[t],
                  val |-> Nil])
    /\ UNCHANGED <<store, now, calls, incOK, redirOK>>

\* IncrementAccessCount taking the lock in read mode
IncrementLockShared(t) ==
    /\ pc[t] = "inc_lock"
    /\ RLock(t)
    /\ Goto(t, "inc_load")
    /\ UNCHANGED <<store, now, svc, req, urlRecord, arg, loc, tmp, err, ret, calls, incOK,
                   redirOK>>

\* IncrementAccessCount, line 92: s.mutex.Lock()
IncrementLock(t) ==
    /\ pc[t] = "inc_lock"
    /\ Lock(t)
    /\ Goto(t, "inc_load")
    /\ UNCHANGED <<store, now, svc, req, urlRecord, arg, loc, tmp, err, ret, calls, incOK, redirOK>>

\* IncrementAccessCount returning ErrURLNotFound without the deferred Unlock
IncrementLoadNoDefer(t) ==
    /\ pc[t] = "inc_load"
    /\ IF arg[t] \in DOMAIN urls
       THEN /\ loc' = [loc EXCEPT ![t] = urls[arg[t]]]
            /\ tmp' = [tmp EXCEPT ![t] = heap[urls[arg[t]]].AccessCount]
            /\ err' = [err EXCEPT ![t] = ErrNil]
            /\ Goto(t, "inc_store")
            /\ UNCHANGED <<svc, req, urlRecord, arg, ret>>
       ELSE Return(t, [arg |-> arg[t], err |-> StorageErrURLNotFound,
                       op |-> "IncrementAccessCount", rec |-> Nil, val |-> Nil])
    /\ UNCHANGED <<store, mutex, now, calls, incOK, redirOK>>

\* IncrementAccessCount, lines 95-98 and the load of url.AccessCount++
IncrementLoad(t) ==
    /\ pc[t] = "inc_load"
    /\ IF arg[t] \in DOMAIN urls
       THEN /\ loc' = [loc EXCEPT ![t] = urls[arg[t]]]
            /\ tmp' = [tmp EXCEPT ![t] = heap[urls[arg[t]]].AccessCount]
            /\ err' = [err EXCEPT ![t] = ErrNil]
            /\ Goto(t, "inc_store")
       ELSE /\ err' = [err EXCEPT ![t] = StorageErrURLNotFound]
            /\ Goto(t, "inc_unlock")
            /\ UNCHANGED <<loc, tmp>>
    /\ UNCHANGED <<store, mutex, now, svc, req, urlRecord, arg, ret, calls, incOK, redirOK>>

\* IncrementAccessCount stamping the record with the time of the access
IncrementStoreTouch(t) ==
    /\ pc[t] = "inc_store"
    /\ heap' = [heap EXCEPT ![loc[t]].AccessCount = tmp[t] + 1, ![loc[t]].CreatedAt = now]
    /\ Goto(t, "inc_unlock")
    /\ UNCHANGED <<urls, urlsByID, urlsByOrig, nextID, mutex, now, svc, req, urlRecord, arg, loc,
                   tmp, err, ret, calls, incOK, redirOK>>

\* IncrementAccessCount counting the access on every record
IncrementStoreAll(t) ==
    /\ pc[t] = "inc_store"
    /\ heap' = [p \in DOMAIN heap |-> [heap[p] EXCEPT !.AccessCount = @ + 1]]
    /\ Goto(t, "inc_unlock")
    /\ UNCHANGED <<urls, urlsByID, urlsByOrig, nextID, mutex, now, svc, req, urlRecord, arg, loc,
                   tmp, err, ret, calls, incOK, redirOK>>

\* IncrementAccessCount, line 100: the store of url.AccessCount++
IncrementStore(t) ==
    /\ pc[t] = "inc_store"
    /\ heap' = [heap EXCEPT ![loc[t]].AccessCount = tmp[t] + 1]
    /\ Goto(t, "inc_unlock")
    /\ UNCHANGED <<urls, urlsByID, urlsByOrig, nextID, mutex, now, svc, req, urlRecord, arg, loc,
                   tmp, err, ret, calls, incOK, redirOK>>

\* GetStats reading the registry without taking the lock
GetStatsNoLock(t) ==
    /\ pc[t] = "stats_rlock"
    /\ Goto(t, "stats_len")
    /\ UNCHANGED <<store, mutex, now, svc, req, urlRecord, arg, loc, tmp, err, ret, calls,
                   incOK, redirOK>>

\* GetStats, line 106: s.mutex.RLock()
GetStatsRLock(t) ==
    /\ pc[t] = "stats_rlock"
    /\ RLock(t)
    /\ Goto(t, "stats_len")
    /\ UNCHANGED <<store, now, svc, req, urlRecord, arg, loc, tmp, err, ret, calls, incOK, redirOK>>

\* GetStats, line 110: len(s.urls)
GetStatsLen(t) ==
    /\ pc[t] = "stats_len"
    /\ tmp' = [tmp EXCEPT ![t] = Cardinality(DOMAIN urls)]
    /\ Goto(t, "stats_next")
    /\ UNCHANGED <<store, mutex, now, svc, req, urlRecord, arg, loc, err, ret, calls, incOK, redirOK>>

\* GetStats, line 111: s.nextID, then the deferred RUnlock and the return
GetStatsNextID(t) ==
    /\ pc[t] = "stats_next"
    /\ RUnlock(t)
    /\ Return(t, [arg |-> NoArg, err |-> ErrNil, op |-> "GetStats", rec |-> Nil,
                  val |-> [total_urls |-> tmp[t], next_id |-> nextID]])
    /\ UNCHANGED <<store, now, calls, incOK, redirOK>>

\* GetAllURLs, line 117: s.mutex.RLock()
GetAllURLsRLock(t) ==
    /\ pc[t] = "all_rlock"
    /\ RLock(t)
    /\ Goto(t, "all_body")
    /\ UNCHANGED <<store, now, svc, req, urlRecord, arg, loc, tmp, err, ret, calls, incOK, redirOK>>

\* GetAllURLs, lines 120-125 (the order of a map range is not fixed: the
\* slice is modelled by the set of its elements), then the deferred RUnlock
GetAllURLsBody(t) ==
    /\ pc[t] = "all_body"
    /\ RUnlock(t)
    /\ Return(t, [arg |-> NoArg, err |-> ErrNil, op |-> "GetAllURLs", rec |-> Nil,
                  val |-> {urls[c] : c \in DOMAIN urls}])
    /\ UNCHANGED <<store, now, calls, incOK, redirOK>>

----------------------------------------------------------------------------
(* net/url and strings, as far as services.URLService uses them.  The raw   *)
(* URLs a goroutine submits hold letters, digits and . - : / @ and blanks,  *)
(* with at most one colon before an @; the branches of url.Parse for # ? %  *)
(* [ ] * and control characters are left out.                               *)

Letters == Lowers \cup Uppers

\* strings.ToLower, one character
ToLowerChar(c) == IF c \in Uppers THEN base62Chars[CharIndex(c) - 26] ELSE c
ToLower(s) == [i \in 1..Len(s) |-> ToLowerChar(s[i])]

HasPrefix(s, p) == Len(s) >= Len(p) /\ SubSeq(s, 1, Len(p)) = p
Contains(s, c) == \E i \in 1..Len(s) : s[i] = c
\* strings.Index / strings.LastIndex for one character; 0 when absent
Index(s, c) == IF Contains(s, c) THEN CHOOSE i \in 1..Len(s) :
                   s[i] = c /\ \A j \in 1..(i - 1) : s[j] # c ELSE 0
LastIndex(s, c) == IF Contains(s, c) THEN CHOOSE i \in 1..Len(s) :
                   s[i] = c /\ \A j \in (i + 1)..Len(s) : s[j] # c ELSE 0
From(s, i) == SubSeq(s, i, Len(s))

\* strings.TrimSpace(s) == ""
TrimSpaceIsEmpty(s) == \A i \in 1..Len(s) : s[i] \in {" ", "\t", "\n", "\r"}

\* url.getScheme: [err, scheme, rest]
getScheme(rawURL) ==
    LET inScheme(i) == \/ rawURL[i] \in Letters
                       \/ i > 1 /\ rawURL[i] \in Digits \cup {"+", "-", "."}
        stops == {i \in 1..Len(rawURL) : ~inScheme(i)}
        i == CHOOSE k \in stops : \A j \in stops : k <= j
    IN  IF stops = {} \/ rawURL[i] # ":"
        THEN [err |-> FALSE, scheme |-> <<>>, rest |-> rawURL]
        ELSE IF i = 1
        THEN [err |-> TRUE, scheme |-> <<>>, rest |-> <<>>]
        ELSE [err |-> FALSE, scheme |-> SubSeq(rawURL, 1, i - 1), rest |-> From(rawURL, i + 1)]

\* url.validOptionalPort
validOptionalPort(port) ==
    \/ port = <<>>
    \/ port[1] = ":" /\ \A i \in 2..Len(port) : port[i] \in Digits

\* url.parseHost, without the [ipv6] branch: the host has a valid optional
\* port and no character that a host may not hold
parseHostOK(host) ==
    /\ Contains(host, ":") => validOptionalPort(From(host, LastIndex(host, ":")))
    /\ \A i \in 1..Len(host) : host[i] \in Letters \cup Digits \cup {".", "-", ":"}

\* url.validUserinfo
validUserinfo(userinfo) ==
    \A i \in 1..Len(userinfo) :
        userinfo[i] \in Letters \cup Digits \cup
            {"-", ".", "_", ":", "~", "!", "$", "&", "'", "(", ")", "*", "+", ",", ";", "=", "%", "@"}

\* User is <<>> for a nil *Userinfo and <<userinfo>> otherwise
ParseError == [err |-> TRUE, Scheme |-> <<>>, Opaque |-> <<>>, User |-> <<>>, Host |-> <<>>,
               Path |-> <<>>, OmitHost |-> FALSE]

\* url.Parse
Parse(rawURL) ==
    LET gs == getScheme(rawURL)
        scheme == ToLower(gs.scheme)
        rest == gs.rest
        firstSegment == IF Contains(rest, "/") THEN SubSeq(rest, 1, Index(rest, "/") - 1)
                        ELSE rest
        afterSlashes == From(rest, 3)
        authority == IF Contains(afterSlashes, "/")
                     THEN SubSeq(afterSlashes, 1, Index(afterSlashes, "/") - 1)
                     ELSE afterSlashes
        path == IF Contains(afterSlashes, "/")
                THEN From(afterSlashes, Index(afterSlashes, "/")) ELSE <<>>
        \* url.parseAuthority
        at == LastIndex(authority, "@")
        host == From(authority, at + 1)
        userinfo == SubSeq(authority, 1, at - 1)
    IN  IF gs.err THEN ParseError
        ELSE IF ~HasPrefix(rest, <<"/">>) /\ scheme # <<>>
        THEN [err |-> FALSE, Scheme |-> scheme, Opaque |-> rest, User |-> <<>>,
              Host |-> <<>>, Path |-> <<>>, OmitHost |-> FALSE]
        ELSE IF ~HasPrefix(rest, <<"/">>) /\ Contains(firstSegment, ":")
        THEN ParseError
        ELSE IF (scheme # <<>> \/ ~HasPrefix(rest, <<"/", "/", "/">>))
                /\ HasPrefix(rest, <<"/", "/">>)
        THEN IF parseHostOK(host) /\ (at = 0 \/ validUserinfo(userinfo))
             THEN [err |-> FALSE, Scheme |-> scheme, Opaque |-> <<>>,
                   User |-> IF at = 0 THEN <<>> ELSE <<userinfo>>, Host |-> host,
                   Path |-> path, OmitHost |-> FALSE]
             ELSE ParseError
        ELSE [err |-> FALSE, Scheme |-> scheme, Opaque |-> <<>>, User |-> <<>>, Host |-> <<>>,
              Path |-> rest, OmitHost |-> scheme # <<>> /\ HasPrefix(rest, <<"/">>)]

\* (*url.URL).String, for a URL without query and fragment
String(u) ==
    LET head == IF u.Scheme # <<>> THEN u.Scheme \o <<":">> ELSE <<>>
        slashes == IF u.Host # <<>> \/ u.Path # <<>> \/ u.User # <<>>
                   THEN <<"/", "/">> ELSE <<>>
        user == IF u.User # <<>> THEN u.User[1] \o <<"@">> ELSE <<>>
        auth == IF u.Scheme # <<>> \/ u.Host # <<>> \/ u.User # <<>>
                THEN IF u.OmitHost /\ u.Host = <<>> /\ u.User = <<>> THEN <<>>
                     ELSE slashes \o user \o u.Host
                ELSE <<>>
        sep == IF u.Path # <<>> /\ u.Path[1] # "/" /\ u.Host # <<>> THEN <<"/">> ELSE <<>>
        firstSegment == IF Contains(u.Path, "/")
                        THEN SubSeq(u.Path, 1, Index(u.Path, "/") - 1) ELSE u.Path
        dot == IF head \o auth \o sep = <<>> /\ Contains(firstSegment, ":")
               THEN <<".", "/">> ELSE <<>>
    IN  IF u.Opaque # <<>> THEN head \o u.Opaque
        ELSE head \o auth \o sep \o dot \o u.Path

----------------------------------------------------------------------------
(* services.URLService *)

ErrInvalidURL == "services.ErrInvalidURL"
ErrURLNotFound == "services.ErrURLNotFound"
ErrInvalidShortCode == "services.ErrInvalidShortCode"

HttpPrefix == <<"h", "t", "t", "p", ":", "/", "/">>
Http == <<"h", "t", "t", "p">>
Https == <<"h", "t", "t", "p", "s">>
Localhost == <<"l", "o", "c", "a", "l", "h", "o", "s", "t">>

\* validateURL: ErrNil or ErrInvalidURL
validateURL(rawURL) ==
    LET first == Parse(rawURL)
        again == first.Scheme = <<>> \/ first.Host = <<>>
        second == Parse(HttpPrefix \o rawURL)
        parsedURL == IF again THEN second ELSE first
    IN  IF TrimSpaceIsEmpty(rawURL) THEN ErrInvalidURL
        ELSE IF first.err THEN ErrInvalidURL
        ELSE IF again /\ (second.err \/ second.Host = <<>>) THEN ErrInvalidURL
        ELSE IF parsedURL.Scheme # Http /\ parsedURL.Scheme # Https THEN ErrInvalidURL
        ELSE IF ~Contains(parsedURL.Host, ".") /\ parsedURL.Host # Localhost
        THEN ErrInvalidURL
        ELSE ErrNil

\* normalizeURL
normalizeURL(rawURL) ==
    LET first == Parse(rawURL)
        second == Parse(HttpPrefix \o rawURL)
        parsedURL == IF first.err THEN second ELSE first
    IN  IF first.err /\ second.err THEN rawURL
        ELSE String([parsedURL EXCEPT !.Scheme = IF @ = <<>> THEN Http ELSE @])

\* What ShortenURL copies out of the record Save returned (lines 214-220).
ShortenResponse(p) ==
    [ID |-> heap[p].ID, OriginalURL |-> heap[p].OriginalURL,
     ShortCode |-> heap[p].ShortCode, CreatedAt |-> heap[p].CreatedAt]

\* What GetURLInfo copies out of the record GetByShortCode returned (lines
\* 267-274); the read of AccessCount is not under the registry's lock.
URLInfoResponse(p) ==
    [ID |-> heap[p].ID, OriginalURL |-> heap[p].OriginalURL,
     ShortCode |-> heap[p].ShortCode, CreatedAt |-> heap[p].CreatedAt,
     AccessCount |-> heap[p].AccessCount]

Bump(f, c) == [f EXCEPT ![c] = @ + 1]

\* Save, line 39 (deferred): s.mutex.Unlock(); and the return, into ShortenURL
\* (lines 208-222) when that is the caller
SaveUnlock(t) ==
    /\ pc[t] = "save_unlock"
    /\ Unlock(t)
    /\ IF svc[t] = "ShortenURL"
       THEN Return(t, [arg |-> req[t], err |-> ErrNil, op |-> "ShortenURL", rec |-> Nil,
                       val |-> ShortenResponse(loc[t])])
       ELSE Return(t, [arg |-> arg[t], err |-> ErrNil, op |-> "Save", rec |-> loc[t],
                       val |-> Nil])
    /\ UNCHANGED <<store, now, calls, incOK, redirOK>>

\* GetOriginalURL returning the URL without the IncrementAccessCount call of
\* line 242
GetByShortCodeRUnlockNoCount(t) ==
    /\ pc[t] = "gsc_runlock"
    /\ RUnlock(t)
    /\ IF svc[t] = "none"
       THEN /\ Return(t, [arg |-> arg[t], err |-> err[t], op |-> "GetByShortCode",
                          rec |-> loc[t], val |-> Nil])
            /\ UNCHANGED redirOK
       ELSE IF err[t] # ErrNil
       THEN /\ Return(t, [arg |-> req[t], err |-> ErrURLNotFound, op |-> svc[t],
                          rec |-> Nil, val |-> Nil])
            /\ UNCHANGED redirOK
       ELSE IF svc[t] = "GetOriginalURL"
       THEN /\ Return(t, [arg |-> req[t], err |-> ErrNil, op |-> "GetOriginalURL",
                          rec |-> Nil, val |-> heap[loc[t]].OriginalURL])
            /\ redirOK' = Bump(redirOK, req[t])
       ELSE /\ urlRecord' = [urlRecord EXCEPT ![t] = loc[t]]
            /\ loc' = [loc EXCEPT ![t] = Nil]
            /\ Goto(t, "info_resp")
            /\ UNCHANGED <<svc, req, arg, tmp, err, ret, redirOK>>
    /\ UNCHANGED <<store, now, calls, incOK>>

\* GetByShortCode, line 67 (deferred): s.mutex.RUnlock(); and the return, into
\* GetOriginalURL (lines 233-239) or GetURLInfo (lines 258-264) when one of
\* them is the caller
GetByShortCodeRUnlock(t) ==
    /\ pc[t] = "gsc_runlock"
    /\ RUnlock(t)
    /\ IF svc[t] = "none"
       THEN Return(t, [arg |-> arg[t], err |-> err[t], op |-> "GetByShortCode",
                       rec |-> loc[t], val |-> Nil])
       ELSE IF err[t] # ErrNil
       THEN Return(t, [arg |-> req[t], err |-> ErrURLNotFound, op |-> svc[t],
                       rec |-> Nil, val |-> Nil])
       ELSE /\ urlRecord' = [urlRecord EXCEPT ![t] = loc[t]]
            /\ loc' = [loc EXCEPT ![t] = Nil]
            /\ Goto(t, IF svc[t] = "GetOriginalURL" THEN "inc_lock" ELSE "info_resp")
            /\ UNCHANGED <<svc, req, arg, tmp, err, ret>>
    /\ UNCHANGED <<store, now, calls, incOK, redirOK>>

\* IncrementAccessCount, line 93 (deferred): s.mutex.Unlock(); and the return,
\* into GetOriginalURL (lines 242-247), which drops the error, when that is
\* the caller
IncrementUnlock(t) ==
    /\ pc[t] = "inc_unlock"
    /\ Unlock(t)
    /\ incOK' = IF err[t] = ErrNil THEN Bump(incOK, arg[t]) ELSE incOK
    /\ IF svc[t] = "GetOriginalURL"
       THEN /\ Return(t, [arg |-> req[t], err |-> ErrNil, op |-> "GetOriginalURL",
                          rec |-> Nil, val |-> heap[urlRecord[t]].OriginalURL])
            /\ redirOK' = Bump(redirOK, req[t])
       ELSE /\ Return(t, [arg |-> arg[t], err |-> err[t], op |-> "IncrementAccessCount",
                          rec |-> Nil, val |-> Nil])
            /\ UNCHANGED redirOK
    /\ UNCHANGED <<store, now, calls>>

\* GetURLInfo counting the query as an access of the link
GetURLInfoResponseCounting(t) ==
    /\ pc[t] = "info_resp"
    /\ heap' = [heap EXCEPT ![urlRecord[t]].AccessCount = @ + 1]
    /\ Return(t, [arg |-> req[t], err |-> ErrNil, op |-> "GetURLInfo", rec |-> Nil,
                  val |-> URLInfoResponse(urlRecord[t])])
    /\ UNCHANGED <<urls, urlsByID, urlsByOrig, nextID, mutex, now, calls, incOK, redirOK>>

\* GetURLInfo, lines 267-276
GetURLInfoResponse(t) ==
    /\ pc[t] = "info_resp"
    /\ Return(t, [arg |-> req[t], err |-> ErrNil, op |-> "GetURLInfo", rec |-> Nil,
                  val |-> URLInfoResponse(urlRecord[t])])
    /\ UNCHANGED <<store, mutex, now, calls, incOK, redirOK>>

\* A goroutine calls a URLService method: the validation of the argument is
\* local to the goroutine, and a rejected call returns at once.
Serve(t, method, a, rejected, label, storageArg) ==
    /\ pc[t] = "idle"
    /\ calls < MaxCalls
    /\ calls' = calls + 1
    /\ IF rejected # ErrNil
       THEN Return(t, [arg |-> a, err |-> rejected, op |-> method, rec |-> Nil,
                       val |-> Nil])
       ELSE /\ pc' = [pc EXCEPT ![t] = label]
            /\ svc' = [svc EXCEPT ![t] = method]
            /\ req' = [req EXCEPT ![t] = a]
            /\ arg' = [arg EXCEPT ![t] = storageArg]
            /\ ret' = [ret EXCEPT ![t] = NoRet]
            /\ UNCHANGED <<urlRecord, loc, tmp, err>>
    /\ UNCHANGED <<store, mutex, now, incOK, redirOK>>

----------------------------------------------------------------------------
(* handlers.URLHandler: what the handler answers to the result r of the     *)
(* service call it made, r.err being the error and r.val the value           *)

StatusOK == 200
StatusMovedPermanently == 301
StatusBadRequest == 400
StatusNotFound == 404
StatusInternalServerError == 500

\* c.JSON(status, models.ErrorResponse{Error: error, ...})
ErrorResponse(status, error) ==
    [status |-> status, error |-> error, Location |-> <<>>, body |-> Nil]

\* RedirectURL answering every error of the service with 404
RedirectURLAlwaysNotFound(r) ==
    IF r.err # ErrNil THEN ErrorResponse(StatusNotFound, "url_not_found")
    ELSE [status |-> StatusMovedPermanently, error |-> "", Location |-> r.val, body |-> Nil]

\* RedirectURL, lines 66-88
RedirectURL(r) ==
    IF r.err = ErrURLNotFound THEN ErrorResponse(StatusNotFound, "url_not_found")
    ELSE IF r.err = ErrInvalidShortCode
    THEN ErrorResponse(StatusBadRequest, "invalid_short_code")
    ELSE IF r.err # ErrNil THEN ErrorResponse(StatusInternalServerError, "internal_error")
    ELSE [status |-> StatusMovedPermanently, error |-> "", Location |-> r.val, body |-> Nil]

\* GetURLInfo, lines 98-119
GetURLInfo(r) ==
    IF r.err = ErrURLNotFound THEN ErrorResponse(StatusNotFound, "url_not_found")
    ELSE IF r.err = ErrInvalidShortCode
    THEN ErrorResponse(StatusBadRequest, "invalid_short_code")
    ELSE IF r.err # ErrNil THEN ErrorResponse(StatusInternalServerError, "internal_error")
    ELSE [status |-> StatusOK, error |-> "", Location |-> <<>>, body |-> r.val]

\* What the goroutine's handler writes to the client once the service call
\* it made has returned
Response(r) ==
    IF r.op = "GetOriginalURL" THEN RedirectURL(r) ELSE GetURLInfo(r)

----------------------------------------------------------------------------
(* The calls goroutines make *)

\* original URLs handed to Save directly
StoreURLs == { <<"h","t","t","p",":","/","/","a",".","b">>,
               <<"h","t","t","p","s",":","/","/","a",".","b">> }

\* URLs submitted to ShortenURL
RawURLs == { <<"a",".","b">>,
             <<"h","t","t","p",":","/","/","a",".","b">>,
             <<"h","t","t","p","s",":","/","/","a",".","b">>,
             <<"f","t","p",":","/","/","a",".","b">>,
             <<>> }

\* short codes handed to the registry directly
StoreCodes == { <<"1">>, <<"2">> }

\* short codes handed to the service
Codes == { <<"1">>, <<"2">>, <<"0","1">>, <<"!">>, <<>> }

\* ids looked up
IDs == {1, 2}

CallSave(t) ==
    /\ calls < MaxCalls
    /\ \E u \in StoreURLs : Enter(t, "save_lock", u)
    /\ UNCHANGED <<store, mutex, now, incOK, redirOK>>

CallGetByShortCode(t) ==
    /\ calls < MaxCalls
    /\ \E c \in StoreCodes : Enter(t, "gsc_rlock", c)
    /\ UNCHANGED <<store, mutex, now, incOK, redirOK>>

CallGetByID(t) ==
    /\ calls < MaxCalls
    /\ \E i \in IDs : Enter(t, "gid_rlock", U64(i))
    /\ UNCHANGED <<store, mutex, now, incOK, redirOK>>

CallIncrementAccessCount(t) ==
    /\ calls < MaxCalls
    /\ \E c \in StoreCodes : Enter(t, "inc_lock", c)
    /\ UNCHANGED <<store, mutex, now, incOK, redirOK>>

CallGetStats(t) ==
    /\ calls < MaxCalls
    /\ Enter(t, "stats_rlock", NoArg)
    /\ UNCHANGED <<store, mutex, now, incOK, redirOK>>

CallGetAllURLs(t) ==
    /\ calls < MaxCalls
    /\ Enter(t, "all_rlock", NoArg)
    /\ UNCHANGED <<store, mutex, now, incOK, redirOK>>

\* strings handed to Save directly by callers that do not validate: empty,
\* blank, not a URL, a URL
AnyStrings == { <<>>, <<" ">>, <<"a","b">>, <<"h","t","t","p",":","/","/","a",".","b">> }

CallSaveAny(t) ==
    /\ calls < MaxCalls
    /\ \E u \in AnyStrings : Enter(t, "save_lock", u)
    /\ UNCHANGED <<store, mutex, now, incOK, redirOK>>

\* the code of the first record, as the registry writes it and with zeros
\* in front
PaddedCodes == { <<"1">>, <<"0","1">>, <<"0","0","1">> }

CallGetByShortCodePadded(t) ==
    /\ calls < MaxCalls
    /\ \E c \in PaddedCodes : Enter(t, "gsc_rlock", c)
    /\ UNCHANGED <<store, mutex, now, incOK, redirOK>>

\* GetOriginalURL, lines 228-233
CallGetOriginalURLPadded(t) ==
    \E c \in PaddedCodes :
        Serve(t, "GetOriginalURL", c,
              IF IsValidBase62(c) THEN ErrNil ELSE ErrInvalidShortCode, "gsc_rlock", c)

\* GetURLInfo, lines 253-258
CallGetURLInfoPadded(t) ==
    \E c \in PaddedCodes :
        Serve(t, "GetURLInfo", c,
              IF IsValidBase62(c) THEN ErrNil ELSE ErrInvalidShortCode, "gsc_rlock", c)

\* One URL, its code and its id: a call meets the record or not as it comes
\* before or after the first Save.
CallRegistry(t) ==
    /\ calls < MaxCalls
    /\ \/ Enter(t, "save_lock", <<"h","t","t","p",":","/","/","a",".","b">>)
       \/ Enter(t, "gsc_rlock", <<"1">>)
       \/ Enter(t, "gid_rlock", U64(1))
       \/ Enter(t, "inc_lock", <<"1">>)
       \/ Enter(t, "stats_rlock", NoArg)
    /\ UNCHANGED <<store, mutex, now, incOK, redirOK>>

\* ShortenURL, lines 200-208
CallShortenURL(t) ==
    \E raw \in RawURLs :
        Serve(t, "ShortenURL", raw, validateURL(raw), "save_lock", normalizeURL(raw))

\* GetOriginalURL, lines 228-233
CallGetOriginalURL(t) ==
    \E c \in Codes :
        Serve(t, "GetOriginalURL", c,
              IF IsValidBase62(c) THEN ErrNil ELSE ErrInvalidShortCode, "gsc_rlock", c)

\* GetURLInfo, lines 253-258
CallGetURLInfo(t) ==
    \E c \in Codes :
        Serve(t, "GetURLInfo", c,
              IF IsValidBase62(c) THEN ErrNil ELSE ErrInvalidShortCode, "gsc_rlock", c)

\* URLs submitted to ShortenURL by goroutines that only create links: empty
\* and blank, without a scheme, with the scheme or the host in capitals,
\* with another scheme, with a host that has no dot, and with a port
SubmittedURLs ==
    { <<>>, <<" ">>,
      <<"a",".","b">>,
      <<"h","t","t","p",":","/","/","a",".","b">>,
      <<"H","T","T","P",":","/","/","a",".","b">>,
      <<"h","t","t","p",":","/","/","A",".","b">>,
      <<"f","t","p",":","/","/","a",".","b">>,
      <<"h","t","t","p",":","/","/","a","b">>,
      <<"a","b">>,
      <<"a",".","b",":","8">>,
      <<"h","t","t","p",":","/","/","a",".","b",":","8">>,
      <<"f","t","p",":","x","@","a",".","b">> }

\* ShortenURL, lines 200-208
CallShortenSubmitted(t) ==
    \E raw \in SubmittedURLs :
        Serve(t, "ShortenURL", raw, validateURL(raw), "save_lock", normalizeURL(raw))

\* The wall clock advances.  Only Save reads it, once for each record it
\* creates, so the ticks that matter are those that separate two creations:
\* the clock is at most one tick ahead of the number of records.
Tick ==
    /\ now <= Len(heap)
    /\ now' = now + 1
    /\ UNCHANGED <<store, mutex, pc, svc, req, urlRecord, arg, loc, tmp, err, ret, calls,
                   incOK, redirOK>>

\* The n-th of a run of distinct original URLs: "u" followed by n in base 62
SeqURL(n) == <<"u">> \o EncodeBase62(U64(n))

\* One goroutine creates records one after another, each from a new URL.
CallSaveNext(t) ==
    /\ calls < MaxSeq
    /\ Enter(t, "save_lock", SeqURL(calls + 1))
    /\ UNCHANGED <<store, mutex, now, incOK, redirOK>>

\* The numbers handed to EncodeBase62: every uint64 whose limbs are all 0, 1,
\* 62 or 0xffff (0, 1, 2^16, 2^32 - 1, 2^48, 2^64 - 1, ...), the powers of 62
\* up to 62^MaxPow with their predecessors, and the numbers of the tests.
RECURSIVE Pow62(_)
Pow62(k) == IF k = 0 THEN One64 ELSE Mul64(Pow62(k - 1), base)

LimbValues == {0, 1, base, Limb - 1}

\* the inputs of TestEncodeBase62 and TestBase62RoundTrip
TestNums == {U64(n) : n \in {0, 1, 10, 35, 36, 61, 62, 123, 1000, 3844, 999999}}

Nums ==
    {<<a, b, c, d>> : a \in LimbValues, b \in LimbValues, c \in LimbValues, d \in LimbValues}
        \cup {Pow62(k) : k \in 0..MaxPow}
        \cup {Add64(Pow62(k), MaxUint64) : k \in 0..MaxPow}
        \cup TestNums

\* The strings handed to DecodeBase62 and IsValidBase62: every string of at
\* most MaxStrLen characters, the characters being the first and the last of
\* each range of the alphabet, bytes that lie right outside the ranges, and
\* a blank.
Chars == {"0", "9", "a", "z", "A", "Z", "/", ":", "@", "[", "_", "{", " "}

Strs == UNION {[1..n -> Chars] : n \in 0..MaxStrLen}

\* Codes of up to MaxLongLen characters, the longest of which decode past
\* 2^64: a run of one character of the alphabet followed by a run of another
LongChars == {"0", "1", "9", "a", "z", "A", "Z"}
LongStrs ==
    { [i \in 1..n |-> IF i <= k THEN a ELSE b] :
        n \in 0..MaxLongLen, k \in 0..MaxLongLen, a \in LongChars, b \in LongChars }

\* A pure function of utils is called and returns in one step.
Apply(t, r) ==
    /\ pc[t] = "idle"
    /\ ret' = [ret EXCEPT ![t] = r]
    /\ UNCHANGED <<store, mutex, now, pc, svc, req, urlRecord, arg, loc, tmp, err, calls,
                   incOK, redirOK>>

\* The goroutine drops the result it holds.
DropResult(t) == ret[t] # NoRet /\ Apply(t, NoRet)

\* The strings a goroutine passes on: any of Strs when it holds no result,
\* what EncodeBase62 returned when it holds that
StrArgs(t) ==
    IF ret[t] = NoRet THEN Strs
    ELSE IF ret[t].op = "EncodeBase62" THEN {ret[t].val} ELSE {}

CallEncodeBase62(t) ==
    /\ ret[t] = NoRet
    /\ \E n \in Nums :
          Apply(t, [arg |-> n, err |-> ErrNil, op |-> "EncodeBase62", rec |-> Nil,
                    val |-> EncodeBase62(n)])

CallDecodeBase62(t) ==
    \E s \in StrArgs(t) :
        Apply(t, [arg |-> s, err |-> ErrNil, op |-> "DecodeBase62", rec |-> Nil,
                  val |-> DecodeBase62(s)])

CallDecodeBase62Long(t) ==
    /\ ret[t] = NoRet
    /\ \E s \in LongStrs :
          Apply(t, [arg |-> s, err |-> ErrNil, op |-> "DecodeBase62", rec |-> Nil,
                    val |-> DecodeBase62(s)])

CallIsValidBase62(t) ==
    \E s \in StrArgs(t) :
        Apply(t, [arg |-> s, err |-> ErrNil, op |-> "IsValidBase62", rec |-> Nil,
                  val |-> IsValidBase62(s)])

----------------------------------------------------------------------------
(* Specifications *)

Init ==
    /\ NewMemoryStorage
    /\ now = 1
    /\ pc = [t \in Threads |-> "idle"]
    /\ svc = [t \in Threads |-> "none"]
    /\ req = [t \in Threads |-> NoArg]
    /\ urlRecord = [t \in Threads |-> Nil]
    /\ arg = [t \in Threads |-> NoArg]
    /\ loc = [t \in Threads |-> Nil]
    /\ tmp = [t \in Threads |-> 0]
    /\ err = [t \in Threads |-> ErrNil]
    /\ ret = [t \in Threads |-> NoRet]
    /\ calls = 0
    /\ incOK = [c \in Codes |-> 0]
    /\ redirOK = [c \in Codes |-> 0]

\* One step of a registry method
StorageStep(t) ==
    \/ SaveLock(t) \/ SaveCheck(t) \/ SaveInsUrls(t) \/ SaveInsByID(t)
    \/ SaveInsByOrig(t) \/ SaveNextID(t) \/ SaveUnlock(t)
    \/ GetByShortCodeRLock(t) \/ GetByShortCodeBody(t) \/ GetByShortCodeRUnlock(t)
    \/ GetByIDRLock(t) \/ GetByIDBody(t) \/ GetByIDRUnlock(t)
    \/ IncrementLock(t) \/ IncrementLoad(t) \/ IncrementStore(t) \/ IncrementUnlock(t)
    \/ GetStatsRLock(t) \/ GetStatsLen(t) \/ GetStatsNextID(t)
    \/ GetAllURLsRLock(t) \/ GetAllURLsBody(t)

\* Goroutines calling the registry's methods directly
Next ==
    \/ Tick
    \/ \E t \in Threads :
        \/ CallSave(t) \/ CallGetByShortCode(t) \/ CallGetByID(t)
        \/ CallIncrementAccessCount(t) \/ CallGetStats(t) \/ CallGetAllURLs(t)
        \/ StorageStep(t)

Spec == Init /\ [][Next]_vars

\* Goroutines calling the registry's methods with strings of any kind
NextAnySave ==
    \E t \in Threads :
        \/ CallSaveAny(t) \/ CallGetByShortCode(t) \/ CallGetByID(t)
        \/ CallIncrementAccessCount(t) \/ CallGetStats(t) \/ CallGetAllURLs(t)
        \/ StorageStep(t)

SpecAnySave == Init /\ [][NextAnySave]_vars

\* Goroutines creating links and looking codes up, through the registry and
\* through the service
NextExact ==
    \E t \in Threads :
        \/ CallSave(t) \/ CallGetByShortCodePadded(t)
        \/ CallGetOriginalURLPadded(t) \/ CallGetURLInfoPadded(t)
        \/ SaveLock(t) \/ SaveCheck(t) \/ SaveInsUrls(t) \/ SaveInsByID(t)
        \/ SaveInsByOrig(t) \/ SaveNextID(t) \/ SaveUnlock(t)
        \/ GetByShortCodeRLock(t) \/ GetByShortCodeBody(t) \/ GetByShortCodeRUnlock(t)
        \/ IncrementLock(t) \/ IncrementLoad(t) \/ IncrementStore(t) \/ IncrementUnlock(t)
        \/ GetURLInfoResponse(t)

SpecExact == Init /\ [][NextExact]_vars

\* The steps of Save, GetByShortCode, GetByID, IncrementAccessCount and
\* GetStats
RegistryStep(t) ==
    \/ SaveLock(t) \/ SaveCheck(t) \/ SaveInsUrls(t) \/ SaveInsByID(t)
    \/ SaveInsByOrig(t) \/ SaveNextID(t) \/ SaveUnlock(t)
    \/ GetByShortCodeRLock(t) \/ GetByShortCodeBody(t) \/ GetByShortCodeRUnlock(t)
    \/ GetByIDRLock(t) \/ GetByIDBody(t) \/ GetByIDRUnlock(t)
    \/ IncrementLock(t) \/ IncrementLoad(t) \/ IncrementStore(t) \/ IncrementUnlock(t)
    \/ GetStatsRLock(t) \/ GetStatsLen(t) \/ GetStatsNextID(t)

NextComplete ==
    \E t \in Threads :
        \/ CallRegistry(t)
        \/ RegistryStep(t)

\* Goroutines that make MaxCalls calls of the registry in all; the scheduler
\* runs every goroutine that can take a step, a goroutine blocked in Lock or
\* RLock as soon as the lock stays free for it.
SpecComplete ==
    Init /\ [][NextComplete]_vars /\ \A t \in Threads : WF_pc(RegistryStep(t))

\* Goroutines calling the service's methods
NextService ==
    \/ Tick
    \/ \E t \in Threads :
        \/ CallShortenURL(t) \/ CallGetOriginalURL(t) \/ CallGetURLInfo(t)
        \/ SaveLock(t) \/ SaveCheck(t) \/ SaveInsUrls(t) \/ SaveInsByID(t)
        \/ SaveInsByOrig(t) \/ SaveNextID(t) \/ SaveUnlock(t)
        \/ GetByShortCodeRLock(t) \/ GetByShortCodeBody(t) \/ GetByShortCodeRUnlock(t)
        \/ IncrementLock(t) \/ IncrementLoad(t) \/ IncrementStore(t) \/ IncrementUnlock(t)
        \/ GetURLInfoResponse(t)

SpecService == Init /\ [][NextService]_vars

\* Goroutines creating and counting links while others look them up, through
\* the registry and through the service's GetURLInfo
NextLookup ==
    \E t \in Threads :
        \/ CallSave(t) \/ CallIncrementAccessCount(t)
        \/ CallGetByShortCode(t) \/ CallGetByID(t) \/ CallGetStats(t) \/ CallGetURLInfo(t)
        \/ SaveLock(t) \/ SaveCheck(t) \/ SaveInsUrls(t) \/ SaveInsByID(t)
        \/ SaveInsByOrig(t) \/ SaveNextID(t) \/ SaveUnlock(t)
        \/ IncrementLock(t) \/ IncrementLoad(t) \/ IncrementStore(t) \/ IncrementUnlock(t)
        \/ GetByShortCodeRLock(t) \/ GetByShortCodeBody(t) \/ GetByShortCodeRUnlock(t)
        \/ GetByIDRLock(t) \/ GetByIDBody(t) \/ GetByIDRUnlock(t)
        \/ GetStatsRLock(t) \/ GetStatsLen(t) \/ GetStatsNextID(t)
        \/ GetURLInfoResponse(t)

SpecLookup == Init /\ [][NextLookup]_vars

\* Goroutines that only create links, through the service's ShortenURL
NextShorten ==
    \E t \in Threads :
        \/ CallShortenSubmitted(t)
        \/ SaveLock(t) \/ SaveCheck(t) \/ SaveInsUrls(t) \/ SaveInsByID(t)
        \/ SaveInsByOrig(t) \/ SaveNextID(t) \/ SaveUnlock(t)

SpecShorten == Init /\ [][NextShorten]_vars

\* One goroutine creating MaxSeq records in a row, within one tick of the clock
NextSeq ==
    \/ CallSaveNext(1)
    \/ SaveLock(1) \/ SaveCheck(1) \/ SaveInsUrls(1) \/ SaveInsByID(1)
    \/ SaveInsByOrig(1) \/ SaveNextID(1) \/ SaveUnlock(1)

SpecSeq == Init /\ [][NextSeq]_vars

\* One goroutine decoding long codes
NextDecode ==
    \/ CallDecodeBase62Long(1)
    \/ DropResult(1)

SpecDecode == Init /\ [][NextDecode]_vars

\* One goroutine calling the functions of utils/base62.go
NextEncoder ==
    \/ CallEncodeBase62(1)
    \/ CallDecodeBase62(1)
    \/ CallIsValidBase62(1)
    \/ DropResult(1)

SpecEncoder == Init /\ [][NextEncoder]_vars

\* Two goroutines calling EncodeBase62
NextEncodePair == \E t \in {1, 2} : CallEncodeBase62(t) \/ DropResult(t)

SpecEncodePair == Init /\ [][NextEncodePair]_vars

----------------------------------------------------------------------------
(* Properties *)

Ptrs == 1..Len(heap)
Idle == \A t \in Threads : pc[t] = "idle"

\* C1: at most one record per original URL under concurrent Save calls: in
\* every reachable state no two records hold the same OriginalURL, and Save
\* calls of the same URL that have returned, returned the same id and code.
C1_OneRecordPerURL ==
    /\ \A p, q \in Ptrs : heap[p].OriginalURL = heap[q].OriginalURL => p = q
    /\ \A t1, t2 \in Threads :
          (ret[t1].op = "Save" /\ ret[t2].op = "Save" /\ ret[t1].arg = ret[t2].arg)
          => /\ heap[ret[t1].rec].ID = heap[ret[t2].rec].ID
             /\ heap[ret[t1].rec].ShortCode = heap[ret[t2].rec].ShortCode

\* Two goroutines have each made one call, Save of the same URL, both have
\* returned and one record exists.
C1_Witness ==
    /\ calls = 2
    /\ Len(heap) = 1
    /\ \E t1, t2 \in Threads :
          /\ t1 # t2
          /\ ret[t1].op = "Save" /\ ret[t2].op = "Save"
          /\ ret[t1].arg = ret[t2].arg

C2_Returned ==
    \A t \in Threads :
        ret[t].op = "Save" =>
            /\ ret[t].err = ErrNil
            /\ ret[t].arg \in DOMAIN urlsByOrig
            /\ ret[t].rec = urlsByOrig[ret[t].arg]

C2_DuplicatePath ==
    \A t \in Threads :
        /\ (pc[t] = "save_check" /\ pc'[t] # pc[t] /\ arg[t] \in DOMAIN urlsByOrig)
           => /\ store' = store
              /\ loc'[t] = urlsByOrig[arg[t]]
              /\ pc'[t] = "save_unlock"
        /\ (pc[t] \in {"save_lock", "save_unlock"} /\ pc'[t] # pc[t])
           => store' = store
        /\ (pc[t] = "save_unlock" /\ pc'[t] # pc[t] /\ svc[t] = "none")
           => ret'[t].rec = loc[t]

C2_Immutable ==
    \A p \in Ptrs :
        /\ p \in 1..Len(heap')
        /\ heap'[p].ID = heap[p].ID
        /\ heap'[p].ShortCode = heap[p].ShortCode
        /\ heap'[p].CreatedAt = heap[p].CreatedAt

\* C2: Save of a URL that already has a record returns that record (the one
\* the by-original index holds, whose id, code and createdAt never change)
\* and leaves the records, the three indices and nextID as they were.
C2_IdempotentSave ==
    /\ []C2_Returned
    /\ [][C2_DuplicatePath]_vars
    /\ [][C2_Immutable]_vars

\* A goroutine is at the end of Save with the record another goroutine's
\* Save of the same URL had already returned: it took the duplicate path.
C2_Witness ==
    \E t1, t2 \in Threads :
        /\ pc[t1] = "save_unlock"
        /\ ret[t2].op = "Save"
        /\ ret[t2].arg = arg[t1]
        /\ ret[t2].rec = loc[t1]

\* C3: any two distinct records have distinct ids and distinct codes, the
\* indices map distinct keys to distinct records, and N records made from N
\* distinct original URLs carry N distinct ids and N distinct codes.
C3_Uniqueness ==
    /\ \A p, q \in Ptrs :
          p # q => heap[p].ID # heap[q].ID /\ heap[p].ShortCode # heap[q].ShortCode
    /\ \A c1, c2 \in DOMAIN urls : c1 # c2 => urls[c1] # urls[c2]
    /\ \A i1, i2 \in DOMAIN urlsByID : i1 # i2 => urlsByID[i1] # urlsByID[i2]
    /\ Cardinality({heap[p].ID : p \in Ptrs})
          = Cardinality({heap[p].OriginalURL : p \in Ptrs})
    /\ Cardinality({heap[p].ShortCode : p \in Ptrs})
          = Cardinality({heap[p].OriginalURL : p \in Ptrs})

\* Two records from two URLs are stored.
C3_Witness ==
    /\ Idle
    /\ Cardinality(DOMAIN urlsByOrig) = 2
    /\ Cardinality(DOMAIN urls) = 2
    /\ Cardinality(DOMAIN urlsByID) = 2

C4_Incrementing(c) ==
    {t \in Threads : pc[t] = "inc_unlock" /\ arg[t] = c /\ err[t] = ErrNil}

\* C4: no lost updates: the accessCount of the record of a code is the number
\* of IncrementAccessCount calls on it that returned nil plus those that have
\* stored their increment and not yet returned; so after C calls have
\* returned the count has grown by exactly C.
C4_NoLostUpdate ==
    \A c \in StoreCodes :
        IF c \in DOMAIN urls
        THEN heap[urls[c]].AccessCount = incOK[c] + Cardinality(C4_Incrementing(c))
        ELSE incOK[c] = 0 /\ C4_Incrementing(c) = {}

\* Two goroutines have each incremented the same code once and returned.
C4_Witness ==
    \E c \in StoreCodes :
        /\ incOK[c] = 2
        /\ \E t1, t2 \in Threads :
              /\ t1 # t2
              /\ ret[t1].op = "IncrementAccessCount" /\ ret[t1].arg = c
              /\ ret[t2].op = "IncrementAccessCount" /\ ret[t2].arg = c

\* C5: the k-th record created has id k and code EncodeBase62(k) (the first
\* "1", the second "2", the 62nd "10"), and a record created later has a
\* larger id than every record created before it.
C5_IdsInCreationOrder ==
    /\ \A k \in Ptrs : heap[k].ID = k /\ heap[k].ShortCode = EncodeBase62(U64(k))
    /\ \A j, k \in Ptrs : j < k => heap[j].ID < heap[k].ID
    /\ Len(heap) >= 1 => heap[1].ShortCode = <<"1">>
    /\ Len(heap) >= 2 => heap[2].ShortCode = <<"2">>
    /\ Len(heap) >= 62 => heap[62].ShortCode = <<"1", "0">>

\* The 62nd record has been created and is stored.
C5_Witness ==
    /\ Len(heap) >= 62
    /\ 62 \in DOMAIN urlsByID
    /\ <<"1", "0">> \in DOMAIN urls

C6_Redirecting(c) ==
    {t \in Threads : svc[t] = "GetOriginalURL" /\ pc[t] = "inc_unlock" /\ req[t] = c}

C6_Counted ==
    \A c \in Codes :
        IF c \in DOMAIN urls
        THEN heap[urls[c]].AccessCount = redirOK[c] + Cardinality(C6_Redirecting(c))
        ELSE redirOK[c] = 0

C6_IncrementFound ==
    \A t \in Threads :
        (svc[t] = "GetOriginalURL" /\ pc[t] = "inc_unlock") => err[t] = ErrNil

C6_Reported ==
    \A t \in Threads :
        (pc[t] = "info_resp" /\ pc'[t] # pc[t])
        => ret'[t].val.AccessCount
              = redirOK[req[t]] + Cardinality(C6_Redirecting(req[t]))

C7_Normalized(u) ==
    IF HasPrefix(u, HttpPrefix) \/ HasPrefix(u, Https \o <<":", "/", "/">>)
    THEN u ELSE HttpPrefix \o u

\* C7: what ShortenURL returned resolves: its code is well-formed and is in
\* the by-code index, the record there has the id, the code and the
\* normalized original URL that ShortenURL returned; GetOriginalURL returns
\* the original URL of the record of its code; GetURLInfo returns the id, the
\* original URL and the code of the record of its code, with an accessCount
\* no greater than the record's: 0 as long as no redirect has counted.
C7_RoundTrip ==
    \A t \in Threads :
        /\ (ret[t].op = "ShortenURL" /\ ret[t].err = ErrNil) =>
              LET r == ret[t].val
              IN  /\ IsValidBase62(r.ShortCode)
                  /\ r.ShortCode \in DOMAIN urls
                  /\ heap[urls[r.ShortCode]].ID = r.ID
                  /\ heap[urls[r.ShortCode]].ShortCode = r.ShortCode
                  /\ heap[urls[r.ShortCode]].OriginalURL = r.OriginalURL
                  /\ r.OriginalURL = C7_Normalized(ret[t].arg)
        /\ (ret[t].op = "GetOriginalURL" /\ ret[t].err = ErrNil) =>
              /\ ret[t].arg \in DOMAIN urls
              /\ ret[t].val = heap[urls[ret[t].arg]].OriginalURL
        /\ (ret[t].op = "GetURLInfo" /\ ret[t].err = ErrNil) =>
              LET r == ret[t].val
              IN  /\ ret[t].arg \in DOMAIN urls
                  /\ r.ShortCode = ret[t].arg
                  /\ heap[urls[ret[t].arg]].ID = r.ID
                  /\ heap[urls[ret[t].arg]].ShortCode = r.ShortCode
                  /\ heap[urls[ret[t].arg]].OriginalURL = r.OriginalURL
                  /\ r.AccessCount <= heap[urls[ret[t].arg]].AccessCount

\* ShortenURL of a URL without a scheme has returned a code, and GetURLInfo of
\* that code has returned the same id and URL with accessCount 0.
C7_Witness ==
    \E t1, t2 \in Threads :
        /\ ret[t1].op = "ShortenURL" /\ ret[t1].err = ErrNil
        /\ ret[t1].arg = <<"a", ".", "b">>
        /\ ret[t2].op = "GetURLInfo" /\ ret[t2].err = ErrNil
        /\ ret[t2].arg = ret[t1].val.ShortCode
        /\ ret[t2].val.ID = ret[t1].val.ID
        /\ ret[t2].val.OriginalURL = ret[t1].val.OriginalURL
        /\ ret[t2].val.AccessCount = 0

C8_Returned ==
    \A t \in Threads :
        /\ ret[t].op \in {"GetByShortCode", "GetByID"} =>
              /\ ret[t].err \in {ErrNil, StorageErrURLNotFound}
              /\ ret[t].err = StorageErrURLNotFound <=> ret[t].rec = Nil
              /\ ret[t].rec # Nil => ret[t].rec \in Ptrs
        /\ ret[t].op = "GetByShortCode" /\ ret[t].rec # Nil
              => heap[ret[t].rec].ShortCode = ret[t].arg
        /\ ret[t].op = "GetByID" /\ ret[t].rec # Nil
              => U64(heap[ret[t].rec].ID) = ret[t].arg
        /\ ret[t].op = "IncrementAccessCount"
              => ret[t].err \in {ErrNil, StorageErrURLNotFound}

C8_Absent(t) ==
    \/ pc[t] = "gsc_body" /\ arg[t] \notin DOMAIN urls
    \/ pc[t] = "gid_body" /\ ~\E i \in DOMAIN urlsByID : U64(i) = arg[t]
    \/ pc[t] = "inc_load" /\ arg[t] \notin DOMAIN urls

C8_Steps ==
    \A t \in Threads :
        /\ (C8_Absent(t) /\ pc'[t] # pc[t])
           => /\ err'[t] = StorageErrURLNotFound
              /\ pc'[t] \in {"gsc_runlock", "gid_runlock", "inc_unlock"}
              /\ pc[t] # "inc_load" => loc'[t] = Nil
              /\ store' = store
        /\ (pc[t] \in {"gsc_runlock", "gid_runlock", "inc_unlock"}
              /\ pc'[t] # pc[t] /\ svc[t] = "none")
           => /\ ret'[t].err = err[t]
              /\ pc[t] # "inc_unlock" => ret'[t].rec = loc[t]
              /\ err[t] = StorageErrURLNotFound => store' = store
        /\ (pc[t] \in {"gsc_rlock", "gid_rlock", "inc_lock"} /\ pc'[t] # pc[t])
           => store' = store

\* C8: GetByShortCode and GetByID of an absent key return the NotFound error
\* and no record (and a record exactly when the error is nil, never a
\* zero-valued one), IncrementAccessCount of an absent code returns NotFound,
\* and none of these calls changes the records, the indices or nextID.
C8_NotFound ==
    /\ []C8_Returned
    /\ [][C8_Steps]_vars

\* GetByShortCode and GetByID have both returned NotFound.
C8_Witness ==
    \E t1, t2 \in Threads :
        /\ ret[t1].op = "GetByShortCode" /\ ret[t1].err = StorageErrURLNotFound
        /\ ret[t2].op = "GetByID" /\ ret[t2].err = StorageErrURLNotFound

C9_WellFormed(c) ==
    Len(c) > 0 /\ \A i \in 1..Len(c) : c[i] \in Digits \cup Lowers \cup Uppers

C9_Lookups == {"GetOriginalURL", "GetURLInfo"}

C9_Returned ==
    \A t \in Threads :
        ret[t].op \in C9_Lookups =>
            /\ ret[t].err \in {ErrNil, ErrURLNotFound, ErrInvalidShortCode}
            /\ ret[t].err = ErrInvalidShortCode <=> ~C9_WellFormed(ret[t].arg)

C9_Steps ==
    /\ (calls' # calls /\ pc' = pc) => store' = store /\ mutex' = mutex
    /\ \A t \in Threads :
        /\ (pc[t] = "idle" /\ svc'[t] \in C9_Lookups)
           => C9_WellFormed(req'[t]) /\ store' = store /\ mutex' = mutex
        /\ (pc[t] = "gsc_runlock" /\ svc[t] \in C9_Lookups /\ pc'[t] # pc[t])
           => (ret'[t].err = ErrURLNotFound /\ pc'[t] = "idle")
                 <=> arg[t] \notin DOMAIN urls

\* C9: GetOriginalURL and GetURLInfo return ErrInvalidShortCode exactly for a
\* code that is empty or holds a character outside 0-9a-zA-Z; only a
\* well-formed code gets as far as a registry call, and a call that is
\* rejected returns at once with the registry and its lock untouched; they
\* return ErrURLNotFound exactly when the well-formed code has no record.
C9_InvalidVersusNotFound ==
    /\ []C9_Returned
    /\ [][C9_Steps]_vars

\* One lookup was rejected for the empty code and another lookup was
\* answered not found.
C9_Witness ==
    \E t1, t2 \in Threads :
        /\ ret[t1].op \in C9_Lookups /\ ret[t1].err = ErrInvalidShortCode
        /\ ret[t1].arg = <<>>
        /\ ret[t2].op \in C9_Lookups /\ ret[t2].err = ErrURLNotFound

C10_Step ==
    /\ Len(heap') >= Len(heap)
    /\ \A p \in 1..Len(heap') :
          IF p <= Len(heap)
          THEN heap'[p].AccessCount >= heap[p].AccessCount
          ELSE heap'[p].AccessCount = 0

\* C10: a record starts with accessCount 0 and along every execution the
\* accessCount of a record never decreases.
C10_AccessCountMonotonic == [][C10_Step]_vars

\* A record has been counted twice.
C10_Witness == \E p \in Ptrs : heap[p].AccessCount = 2

C11_LookupLabels ==
    {"gsc_rlock", "gsc_body", "gsc_runlock", "gid_rlock", "gid_body", "gid_runlock",
     "stats_rlock", "stats_len", "stats_next", "info_resp"}

C11_Step ==
    \A t \in Threads :
        /\ (pc[t] \in C11_LookupLabels /\ pc'[t] # pc[t]) => store' = store
        /\ (pc[t] = "idle" /\ pc'[t] \in C11_LookupLabels) => store' = store
        /\ (calls' # calls /\ pc' = pc /\ ret'[t].op = "GetURLInfo") => store' = store

\* C11: the lookups are pure: no step of GetByShortCode, GetByID, GetStats or
\* GetURLInfo, from the call to the return (a GetURLInfo rejected at once
\* included), changes the three indices, nextID or a field of a record; so
\* the accessCount of a link is what it was before its info was queried.
C11_LookupsArePure == [][C11_Step]_vars

\* GetURLInfo has returned accessCount 1 for a link counted once, and the
\* record still counts 1.
C11_Witness ==
    \E t \in Threads :
        /\ ret[t].op = "GetURLInfo" /\ ret[t].err = ErrNil
        /\ ret[t].val.AccessCount = 1
        /\ heap[urls[ret[t].arg]].AccessCount = 1

\* C12: the encoder round trip: whenever a goroutine decodes what its
\* EncodeBase62 call has just returned for n, DecodeBase62 returns n, for
\* every n submitted (0, the powers of 62, 2^64 - 1 among them), the
\* arithmetic of the decoder wrapping at 2^64.
C12_Step ==
    \A t \in Threads :
        (/\ ret[t].op = "EncodeBase62"
         /\ ret'[t].op = "DecodeBase62"
         /\ ret'[t].arg = ret[t].val) => ret'[t].val = ret[t].arg

C12_EncoderRoundTrip == [][C12_Step]_vars

\* The encoding of 2^64 - 1 has been decoded, to 2^64 - 1.
C12_Witness ==
    \E t \in Threads :
        /\ ret[t].op = "DecodeBase62"
        /\ ret[t].arg = <<"l","Y","G","h","A","1","6","a","h","y","f">>
        /\ ret[t].val = MaxUint64

C13_Uint64 == [1..4 -> 0..(Limb - 1)]

C13_Malformed(s) == \E i \in 1..Len(s) : s[i] \notin {base62Chars[j] : j \in 1..62}

\* C13: DecodeBase62 of a string with a character outside the alphabet
\* returns an error, or at least something that is not a uint64, so that the
\* caller can tell the outcome from a decoded 0.
C13_DecodeRejectsMalformed ==
    \A t \in Threads :
        (ret[t].op = "DecodeBase62" /\ C13_Malformed(ret[t].arg))
            => (ret[t].err # ErrNil \/ ret[t].val \notin C13_Uint64)

C14_Alphabet ==
    {"0","1","2","3","4","5","6","7","8","9",
     "a","b","c","d","e","f","g","h","i","j","k","l","m",
     "n","o","p","q","r","s","t","u","v","w","x","y","z",
     "A","B","C","D","E","F","G","H","I","J","K","L","M",
     "N","O","P","Q","R","S","T","U","V","W","X","Y","Z"}

\* C14: IsValidBase62(s) returns true exactly when s is not empty and every
\* character of s is one of 0-9, a-z, A-Z; it returns false for the empty
\* string.
C14_AlphabetClosure ==
    \A t \in Threads :
        ret[t].op = "IsValidBase62" =>
            /\ ret[t].val <=> (/\ ret[t].arg # <<>>
                               /\ \A i \in 1..Len(ret[t].arg) : ret[t].arg[i] \in C14_Alphabet)
            /\ ret[t].arg = <<>> => ret[t].val = FALSE

\* IsValidBase62 has returned false for a string whose first character is in
\* the alphabet and whose second is not.
C14_Witness ==
    \E t \in Threads :
        /\ ret[t].op = "IsValidBase62"
        /\ ret[t].arg = <<"Z", "[">>
        /\ ret[t].val = FALSE

\* The digits 0-9, a-z, A-Z in this order, and the value of a numeral read
\* from its most significant digit.
C15_Digits ==
    << "0","1","2","3","4","5","6","7","8","9",
       "a","b","c","d","e","f","g","h","i","j","k","l","m",
       "n","o","p","q","r","s","t","u","v","w","x","y","z",
       "A","B","C","D","E","F","G","H","I","J","K","L","M",
       "N","O","P","Q","R","S","T","U","V","W","X","Y","Z" >>

C15_DigitValue(c) == (CHOOSE i \in 1..62 : C15_Digits[i] = c) - 1

RECURSIVE C15_Value(_, _)
C15_Value(s, n) ==
    IF n = 0 THEN Zero64
    ELSE Add64(Mul64(C15_Value(s, n - 1), 62), U64(C15_DigitValue(s[n])))

C15_Examples ==
    << <<0, <<"0">>>>, <<1, <<"1">>>>, <<10, <<"a">>>>, <<35, <<"z">>>>,
       <<36, <<"A">>>>, <<61, <<"Z">>>>, <<62, <<"1","0">>>>,
       <<123, <<"1","Z">>>>, <<3844, <<"1","0","0">>>> >>

\* C15: EncodeBase62(n) is the base-62 numeral of n, most significant digit
\* first, in the digits 0-9, a-z, A-Z: it is not empty, it is made of these
\* digits, its value is n, it has no leading "0" unless it is "0", which is
\* what 0 encodes to, and 10, 36, 61, 62, 123 and 3844 encode to "a", "A",
\* "Z", "10", "1Z" and "100".
C15_PositionalNumeral ==
    \A t \in Threads :
        ret[t].op = "EncodeBase62" =>
            LET n == ret[t].arg
                s == ret[t].val
            IN  /\ Len(s) >= 1
                /\ \A i \in 1..Len(s) : \E j \in 1..62 : s[i] = C15_Digits[j]
                /\ C15_Value(s, Len(s)) = n
                /\ s[1] = "0" => s = <<"0">>
                /\ n = Zero64 => s = <<"0">>
                /\ \A e \in 1..Len(C15_Examples) :
                       n = U64(C15_Examples[e][1]) => s = C15_Examples[e][2]

\* EncodeBase62(123) has returned "1Z".
C15_Witness ==
    \E t \in Threads :
        /\ ret[t].op = "EncodeBase62"
        /\ ret[t].arg = <<123, 0, 0, 0>>
        /\ ret[t].val = <<"1", "Z">>

\* C16: EncodeBase62 is injective: two EncodeBase62 calls of different
\* numbers never return the same string.
C16_EncodeInjective ==
    \A t1, t2 \in Threads :
        (/\ ret[t1].op = "EncodeBase62"
         /\ ret[t2].op = "EncodeBase62"
         /\ ret[t1].arg # ret[t2].arg) => ret[t1].val # ret[t2].val

\* One goroutine has encoded 62^10 - 1 and the other 62^10.
C16_Witness ==
    /\ ret[1].op = "EncodeBase62" /\ ret[1].val = <<"Z","Z","Z","Z","Z","Z","Z","Z","Z","Z">>
    /\ ret[2].op = "EncodeBase62" /\ ret[2].val = <<"1","0","0","0","0","0","0","0","0","0","0">>

\* C17: GetStats returns a snapshot: the count and the nextID it returns are
\* those of the registry at the instant it returns, also while Save calls
\* are in progress, and the next_id returned is the total_urls returned
\* plus one.
C17_Returned ==
    \A t \in Threads :
        ret[t].op = "GetStats" => ret[t].val.next_id = ret[t].val.total_urls + 1

C17_Step ==
    \A t \in Threads :
        (pc[t] = "stats_next" /\ pc'[t] = "idle") =>
            /\ ret'[t].val.total_urls = Cardinality(DOMAIN urls)
            /\ ret'[t].val.next_id = nextID
            /\ store' = store

C17_StatsSnapshot == []C17_Returned /\ [][C17_Step]_vars

\* GetStats has returned one record and nextID 2 while a Save call of another
\* goroutine is in progress.
C17_Witness ==
    \E t1, t2 \in Threads :
        /\ ret[t1].op = "GetStats"
        /\ ret[t1].val.total_urls = 1 /\ ret[t1].val.next_id = 2
        /\ pc[t2] = "save_lock"

RECURSIVE C18_SumAccessCount(_)
C18_SumAccessCount(n) ==
    IF n = 0 THEN 0 ELSE C18_SumAccessCount(n - 1) + heap[n].AccessCount

\* C18: GetStats returns three fields, the record count, nextID and the
\* total of the access counts of all records.
C18_StatsThreeFields ==
    \A t \in Threads :
        ret[t].op = "GetStats" =>
            /\ DOMAIN ret[t].val = {"total_urls", "next_id", "total_accesses"}
            /\ ret[t].val.total_accesses = C18_SumAccessCount(Len(heap))

C19_InWrite(t) ==
    pc[t] \in {"save_check", "save_ins_urls", "save_ins_id", "save_ins_orig",
               "save_next", "save_unlock", "inc_load", "inc_store", "inc_unlock"}

C19_InRead(t) ==
    pc[t] \in {"gsc_body", "gsc_runlock", "gid_body", "gid_runlock",
               "stats_len", "stats_next", "all_body"}

\* C19: while a goroutine is inside the critical section of Save or of
\* IncrementAccessCount, no other goroutine is inside the critical section
\* of any method of the registry.
C19_WriterMutualExclusion ==
    \A t1, t2 \in Threads :
        (t1 # t2 /\ C19_InWrite(t1)) => ~(C19_InWrite(t2) \/ C19_InRead(t2))

\* One goroutine is in the middle of Save's inserts while another has called
\* GetByShortCode and waits for the lock.
C19_Witness ==
    \E t1, t2 \in Threads :
        /\ pc[t1] = "save_ins_id"
        /\ pc[t2] = "gsc_rlock"

\* C20: whenever no goroutine holds the lock in write mode, every record
\* created is in the by-code, the by-id and the by-original index under its
\* own code, id and URL, the indexes hold nothing else, and nextID is past the
\* id of every record.
C20_CreateIsAtomic ==
    mutex.w = 0 =>
        /\ \A p \in Ptrs :
              /\ heap[p].ShortCode \in DOMAIN urls
              /\ urls[heap[p].ShortCode] = p
              /\ heap[p].ID \in DOMAIN urlsByID
              /\ urlsByID[heap[p].ID] = p
              /\ heap[p].OriginalURL \in DOMAIN urlsByOrig
              /\ urlsByOrig[heap[p].OriginalURL] = p
              /\ heap[p].ID < nextID
        /\ \A c \in DOMAIN urls : urls[c] \in Ptrs /\ heap[urls[c]].ShortCode = c
        /\ \A i \in DOMAIN urlsByID : urlsByID[i] \in Ptrs /\ heap[urlsByID[i]].ID = i
        /\ \A u \in DOMAIN urlsByOrig :
              urlsByOrig[u] \in Ptrs /\ heap[urlsByOrig[u]].OriginalURL = u

\* Two records have been created and a lookup is reading the by-code index.
C20_Witness ==
    /\ mutex.w = 0
    /\ Len(heap) = 2
    /\ \E t \in Threads : pc[t] = "gsc_body"

\* The submitted URLs that are empty or blank, that have a host without a
\* dot other than localhost, or that have a scheme other than http and https
C22_Invalid ==
    { <<>>, <<" ">>,
      <<"h","t","t","p",":","/","/","a","b">>,
      <<"a","b">>,
      <<"f","t","p",":","/","/","a",".","b">>,
      <<"f","t","p",":","x","@","a",".","b">> }

C22_Returned ==
    /\ \A t \in Threads :
          (ret[t].op = "ShortenURL" /\ ret[t].arg \in C22_Invalid)
              => ret[t].err = ErrInvalidURL /\ ret[t].val = Nil
    /\ mutex.w = 0 => nextID = Len(heap) + 1
    /\ \A p \in Ptrs : heap[p].ID = p

C22_Step ==
    \A t \in Threads :
        (calls' # calls /\ pc' = pc /\ ret'[t] # ret[t])
            => /\ ret'[t].err = ErrInvalidURL
               /\ store' = store
               /\ mutex' = mutex

\* C22: ShortenURL returns ErrInvalidURL for an empty or blank URL, for a host
\* without a dot that is not localhost and for a scheme other than http and
\* https; the step of such a call leaves the registry as it is, so that the
\* ids of the records stay 1, 2, ... with nextID one past the last, whatever
\* calls were rejected in between.
C22_RejectedLeaveNoTrace == []C22_Returned /\ [][C22_Step]_vars

\* a URL submitted without "scheme://"
C23_SchemeLess(u) ==
    ~\E i \in 1..(Len(u) - 2) : SubSeq(u, i, i + 2) = <<":", "/", "/">>

\* C23: a URL accepted without a scheme is stored and returned as "http://"
\* followed by the input, and the submission without the scheme and the one
\* with "http://" in front get the same id and code.
C23_SchemeNormalization ==
    /\ \A t \in Threads :
          (ret[t].op = "ShortenURL" /\ ret[t].err = ErrNil /\ C23_SchemeLess(ret[t].arg))
              => ret[t].val.OriginalURL = <<"h","t","t","p",":","/","/">> \o ret[t].arg
    /\ \A t1, t2 \in Threads :
          (/\ ret[t1].op = "ShortenURL" /\ ret[t1].err = ErrNil
           /\ ret[t2].op = "ShortenURL" /\ ret[t2].err = ErrNil
           /\ ret[t2].arg = <<"h","t","t","p",":","/","/">> \o ret[t1].arg)
              => /\ ret[t1].val.ID = ret[t2].val.ID
                 /\ ret[t1].val.ShortCode = ret[t2].val.ShortCode

C24_Lower(c) ==
    LET up == <<"A","B","C","D","E","F","G","H","I","J","K","L","M",
                "N","O","P","Q","R","S","T","U","V","W","X","Y","Z">>
        low == <<"a","b","c","d","e","f","g","h","i","j","k","l","m",
                 "n","o","p","q","r","s","t","u","v","w","x","y","z">>
    IN  IF \E i \in 1..26 : up[i] = c THEN low[CHOOSE i \in 1..26 : up[i] = c] ELSE c

\* Two URLs that differ in the case of letters only; the submitted URLs have
\* letters in the scheme and in the host only.
C24_SameUpToCase(u, v) ==
    /\ Len(u) = Len(v)
    /\ \A i \in 1..Len(u) : C24_Lower(u[i]) = C24_Lower(v[i])

\* C24: two accepted submissions that differ only in the case of the letters
\* of the scheme or of the host get the same id and code, and one record.
C24_CaseNormalization ==
    \A t1, t2 \in Threads :
        (/\ ret[t1].op = "ShortenURL" /\ ret[t1].err = ErrNil
         /\ ret[t2].op = "ShortenURL" /\ ret[t2].err = ErrNil
         /\ C24_SameUpToCase(ret[t1].arg, ret[t2].arg))
            => /\ ret[t1].val.ID = ret[t2].val.ID
               /\ ret[t1].val.ShortCode = ret[t2].val.ShortCode

C21_Step ==
    /\ Len(heap') >= Len(heap)
    /\ \A p \in Ptrs :
          /\ heap'[p].ID = heap[p].ID
          /\ heap'[p].OriginalURL = heap[p].OriginalURL
          /\ heap'[p].ShortCode = heap[p].ShortCode
          /\ heap'[p].CreatedAt = heap[p].CreatedAt
    /\ \A c \in DOMAIN urls : c \in DOMAIN urls' /\ urls'[c] = urls[c]
    /\ \A i \in DOMAIN urlsByID : i \in DOMAIN urlsByID' /\ urlsByID'[i] = urlsByID[i]
    /\ \A u \in DOMAIN urlsByOrig : u \in DOMAIN urlsByOrig' /\ urlsByOrig'[u] = urlsByOrig[u]

C21_Returned ==
    \A t \in Threads :
        (ret[t].op = "GetByShortCode" /\ ret[t].err = ErrNil)
            => /\ ret[t].arg \in DOMAIN urls
               /\ urls[ret[t].arg] = ret[t].rec
               /\ heap[ret[t].rec].ShortCode = ret[t].arg

\* C21: records are permanent and structurally immutable: no step removes a
\* record from the store or an entry from one of the three indexes or points
\* an entry at another record, and no step changes a record's ID, OriginalURL,
\* ShortCode or CreatedAt; the record a GetByShortCode(c) has returned is the
\* one the by-code index holds under c, so that every later GetByShortCode(c)
\* returns a record with the same id and original URL.
C21_RecordsArePermanent == []C21_Returned /\ [][C21_Step]_vars

\* Two goroutines have looked the same code up and hold the same record, which
\* was accessed or joined by a second record in the meantime.
C21_Witness ==
    \E t1, t2 \in Threads :
        /\ t1 # t2
        /\ ret[t1].op = "GetByShortCode" /\ ret[t1].err = ErrNil
        /\ ret[t2].op = "GetByShortCode" /\ ret[t2].err = ErrNil
        /\ ret[t1].arg = ret[t2].arg
        /\ ret[t1].rec = ret[t2].rec
        /\ heap[ret[t1].rec].ID = 1

C26_InStep ==
    mutex.w = 0 =>
        /\ nextID = Cardinality(DOMAIN urls) + 1
        /\ nextID = Len(heap) + 1
        /\ DOMAIN urlsByID = 1..(nextID - 1)
        /\ {heap[p].ID : p \in Ptrs} = 1..(nextID - 1)

C26_Step ==
    /\ nextID' # nextID =>
          /\ nextID' = nextID + 1
          /\ \E t \in Threads :
                /\ pc[t] = "save_next" /\ pc'[t] = "save_unlock"
                /\ loc[t] = Len(heap)
                /\ heap[loc[t]].ID = nextID
    /\ \A t \in Threads :
          (pc[t] = "save_check" /\ pc'[t] = "save_unlock") => nextID' = nextID
    /\ \A t \in Threads :
          (pc[t] = "save_unlock" /\ pc'[t] = "idle") => nextID' = nextID
    /\ \A t \in Threads :
          (pc[t] = "save_next" /\ pc'[t] # "save_next") => nextID' = nextID + 1

\* C26: counter and record set stay in step: whenever the lock is not
\* write-held nextID is the number of stored records plus one and the stored
\* ids are exactly 1..nextID-1; nextID changes only by the increment at the
\* end of Save's non-duplicate path, by exactly one, and Save's duplicate
\* path leaves it alone.
C26_CounterInStep == []C26_InStep /\ [][C26_Step]_vars

\* A Save of a URL that was stored already has returned: one record, next id 2.
C26_Witness ==
    \E t1, t2 \in Threads :
        /\ t1 # t2
        /\ ret[t1].op = "Save" /\ ret[t2].op = "Save"
        /\ ret[t1].rec = ret[t2].rec
        /\ Len(heap) = 1
        /\ nextID = 2
        /\ Idle

C27_InIncrement(t) == pc[t] \in {"inc_load", "inc_store", "inc_unlock"}

C27_Step ==
    \A t \in Threads :
        /\ (pc[t] = "inc_store" /\ pc'[t] = "inc_unlock")
              => /\ arg[t] \in DOMAIN urls
                 /\ heap' = [heap EXCEPT ![urls[arg[t]]].AccessCount = @ + 1]
                 /\ UNCHANGED <<urls, urlsByID, urlsByOrig, nextID>>
        /\ (C27_InIncrement(t) /\ ~(pc[t] = "inc_store" /\ pc'[t] = "inc_unlock"))
              => store' = store
        /\ (pc[t] = "inc_lock" /\ pc'[t] = "inc_load") => store' = store

C27_Returned ==
    \A t \in Threads :
        (ret[t].op = "IncrementAccessCount" /\ ret[t].err = ErrNil)
            => /\ ret[t].arg \in DOMAIN urls
               /\ heap[urls[ret[t].arg]].AccessCount >= 1

\* C27: frame of an access increment: a successful IncrementAccessCount(c)
\* changes the registry in one step, which raises the AccessCount of the
\* record with code c by exactly 1 and leaves every other record, the other
\* fields of that record, the three indexes and nextID as they were; between
\* taking and releasing the lock nothing else in the registry changes.
C27_IncrementFrame == []C27_Returned /\ [][C27_Step]_vars

\* An increment of code "1" has returned with two records stored: the first
\* has one access, the second none.
C27_Witness ==
    \E t \in Threads :
        /\ ret[t].op = "IncrementAccessCount" /\ ret[t].err = ErrNil
        /\ ret[t].arg = <<"1">>
        /\ Len(heap) = 2
        /\ heap[1].AccessCount = 1
        /\ heap[2].AccessCount = 0

\* C29: no unguarded access to AccessCount: there is no reachable state in
\* which one goroutine is at the store of AccessCount inside
\* IncrementAccessCount while another is at GetURLInfo's read of the same
\* record's AccessCount, which it makes after GetByShortCode has released the
\* lock.
C29_NoUnguardedRead ==
    \A t1, t2 \in Threads :
        ~(/\ pc[t1] = "inc_store"
          /\ pc[t2] = "info_resp"
          /\ urlRecord[t2] = loc[t1]
          /\ t2 \notin mutex.r)

C30_AtRLock(t) == pc[t] \in {"gsc_rlock", "gid_rlock", "stats_rlock"}
C30_Reading(t) ==
    pc[t] \in {"gsc_body", "gsc_runlock", "gid_body", "gid_runlock", "stats_len", "stats_next"}

\* C30: readers may overlap: GetByShortCode, GetByID and GetStats hold the
\* lock in read mode inside their critical sections, and one of them that
\* is about to take the lock can take it whenever no writer holds it, however
\* many readers are inside.
C30_ReadersOverlap ==
    \A t \in Threads :
        /\ C30_Reading(t) => t \in mutex.r /\ mutex.w = 0
        /\ (C30_AtRLock(t) /\ mutex.w = 0)
              => ENABLED (GetByShortCodeRLock(t) \/ GetByIDRLock(t) \/ GetStatsRLock(t))

\* A GetByShortCode and a GetStats are inside their critical sections at the
\* same time.
C30_Witness ==
    \E t1, t2 \in Threads :
        /\ t1 # t2
        /\ pc[t1] = "gsc_body"
        /\ pc[t2] = "stats_len"
        /\ mutex.r = {t1, t2}

(* The atomic registry: one set of records and a counter.  A record of the  *)
(* store belongs to it from the step that advances nextID past its id.       *)
C28_Records(h, n) == {h[p] : p \in {q \in 1..Len(h) : h[q].ID < n}}
C28_Abs == C28_Records(heap, nextID)
C28_AbsNext == C28_Records(heap', nextID')
C28_Moves(t, from, to) == pc[t] = from /\ pc'[t] = to

\* The step at which a call takes effect, and what it does to the atomic
\* registry and to the result the call will return.
C28_SaveNew(t) ==
    /\ ~\E r \in C28_Abs : r.OriginalURL = arg[t]
    /\ nextID' = nextID + 1
    /\ \E r \in C28_AbsNext :
          /\ r.ID = nextID /\ r.OriginalURL = arg[t]
          /\ r.ShortCode = EncodeBase62(U64(nextID)) /\ r.AccessCount = 0
          /\ C28_AbsNext = C28_Abs \cup {r}
          /\ heap'[loc'[t]] = r
    /\ err'[t] = ErrNil

C28_SaveDuplicate(t) ==
    /\ \E r \in C28_Abs : r.OriginalURL = arg[t] /\ heap'[loc'[t]] = r
    /\ C28_AbsNext = C28_Abs /\ nextID' = nextID
    /\ err'[t] = ErrNil

C28_Get(t, key(_)) ==
    /\ IF \E r \in C28_Abs : key(r) = arg[t]
       THEN err'[t] = ErrNil /\ heap'[loc'[t]] \in C28_Abs /\ key(heap'[loc'[t]]) = arg[t]
       ELSE err'[t] = StorageErrURLNotFound /\ loc'[t] = Nil
    /\ C28_AbsNext = C28_Abs /\ nextID' = nextID

C28_Code(r) == r.ShortCode
C28_ID(r) == U64(r.ID)

C28_IncrementFound(t) ==
    /\ \E r \in C28_Abs :
          /\ r.ShortCode = arg[t]
          /\ C28_AbsNext = (C28_Abs \ {r}) \cup {[r EXCEPT !.AccessCount = @ + 1]}
    /\ nextID' = nextID
    /\ err'[t] = ErrNil

C28_IncrementAbsent(t) ==
    /\ ~\E r \in C28_Abs : r.ShortCode = arg[t]
    /\ C28_AbsNext = C28_Abs /\ nextID' = nextID
    /\ err'[t] = StorageErrURLNotFound

C28_Stats(t) ==
    /\ ret'[t].val = [total_urls |-> Cardinality(C28_Abs), next_id |-> nextID]
    /\ C28_AbsNext = C28_Abs /\ nextID' = nextID

\* A call's result is fixed from the step at which it took effect
C28_Decided(t) == pc[t] \in {"save_unlock", "gsc_runlock", "gid_runlock", "inc_unlock"}

C28_Step ==
    /\ \A t \in Threads :
          /\ C28_Moves(t, "save_next", "save_unlock") => C28_SaveNew(t)
          /\ C28_Moves(t, "save_check", "save_unlock") => C28_SaveDuplicate(t)
          /\ C28_Moves(t, "gsc_body", "gsc_runlock") => C28_Get(t, C28_Code)
          /\ C28_Moves(t, "gid_body", "gid_runlock") => C28_Get(t, C28_ID)
          /\ C28_Moves(t, "inc_store", "inc_unlock") => C28_IncrementFound(t)
          /\ C28_Moves(t, "inc_load", "inc_unlock") => C28_IncrementAbsent(t)
          /\ C28_Moves(t, "stats_next", "idle") => C28_Stats(t)
          /\ (C28_Decided(t) /\ pc'[t] = pc[t]) => loc'[t] = loc[t] /\ err'[t] = err[t]
          /\ (C28_Decided(t) /\ pc'[t] = "idle")
                => /\ ret'[t].err = err[t] /\ ret'[t].arg = arg[t]
                   /\ pc[t] # "inc_unlock" => ret'[t].rec = loc[t]
    /\ (~\E t \in Threads :
            \/ C28_Moves(t, "save_next", "save_unlock")
            \/ C28_Moves(t, "inc_store", "inc_unlock"))
          => C28_AbsNext = C28_Abs /\ nextID' = nextID

\* C28: the registry is linearizable: every call of Save, GetByShortCode,
\* GetByID, IncrementAccessCount and GetStats has one step between its
\* invocation and its return at which it does to the atomic registry (a set of
\* records and a counter) what the sequential operation does and at which its
\* result is the sequential operation's result on the atomic registry of that
\* instant; every other step leaves the atomic registry as it is and the
\* result decided at that step is the one the call returns.
C28_Linearizable == [][C28_Step]_vars

\* A Save is about to take effect while a lookup of the code it has already
\* put into the by-code index waits for the lock.
C28_Witness ==
    \E t1, t2 \in Threads :
        /\ pc[t1] = "save_next"
        /\ pc[t2] = "gsc_rlock"
        /\ arg[t2] = heap[loc[t1]].ShortCode
        /\ arg[t2] \in DOMAIN urls

C25_Answered(r) == r.op \in {"GetOriginalURL", "GetURLInfo"}
C25_Found(r) == IF r.op = "GetOriginalURL" THEN StatusMovedPermanently ELSE StatusOK
C25_InLookup(t) ==
    svc[t] \in {"GetOriginalURL", "GetURLInfo"} /\ pc[t] \in {"gsc_rlock", "gsc_body", "gsc_runlock"}

C25_Responses ==
    \A t \in Threads :
        C25_Answered(ret[t]) =>
            LET r == ret[t]
                resp == Response(r)
            IN  /\ resp.status \in {C25_Found(r), StatusNotFound, StatusBadRequest}
                /\ resp.status = StatusBadRequest <=> ~IsValidBase62(r.arg)
                /\ resp.status = StatusBadRequest => resp.error = "invalid_short_code"
                /\ resp.status = StatusNotFound => resp.error = "url_not_found"
                /\ (IsValidBase62(r.arg) /\ r.arg \notin DOMAIN urls)
                      => resp.status = StatusNotFound
                /\ resp.status = C25_Found(r) =>
                      /\ r.arg \in DOMAIN urls
                      /\ r.op = "GetOriginalURL"
                            => resp.Location = heap[urls[r.arg]].OriginalURL
                      /\ r.op = "GetURLInfo"
                            => /\ resp.body.ID = heap[urls[r.arg]].ID
                               /\ resp.body.OriginalURL = heap[urls[r.arg]].OriginalURL
                               /\ resp.body.ShortCode = r.arg

C25_Step ==
    \A t \in Threads :
        \* the lookup decides between found and not found by the index
        /\ (C25_InLookup(t) /\ pc[t] = "gsc_body" /\ pc'[t] = "gsc_runlock")
              => (err'[t] = ErrNil <=> arg[t] \in DOMAIN urls)
        \* a request is answered 404 exactly when its lookup failed
        /\ (pc[t] # "idle" /\ pc'[t] = "idle" /\ C25_Answered(ret'[t]))
              => (Response(ret'[t]).status = StatusNotFound
                     <=> (pc[t] = "gsc_runlock" /\ err[t] # ErrNil))
        \* a request answered 400 or 404 has written nothing
        /\ (calls' # calls /\ pc' = pc /\ C25_Answered(ret'[t]) /\ ret'[t] # ret[t])
              => /\ Response(ret'[t]).status = StatusBadRequest
                 /\ store' = store
        /\ (C25_InLookup(t) /\ pc'[t] # pc[t]) => store' = store
        /\ (pc'[t] # pc[t] /\ pc'[t] \in {"inc_lock", "info_resp"}) => err[t] = ErrNil

\* C25: the redirect endpoint answers 301 with the stored original URL as
\* Location when the code exists, 404 "url_not_found" when the code is
\* well-formed and absent and 400 "invalid_short_code" when it is malformed,
\* the info endpoint 200, 404 and 400 in the same cases, and no step of a
\* request answered 400 or 404 writes the registry.
C25_OutcomeMapping == []C25_Responses /\ [][C25_Step]_vars

\* A redirect of code "1" was answered 301, one of the absent code "2" 404
\* and the record's access was counted once.
C25_Witness ==
    \E t1, t2 \in Threads :
        /\ ret[t1].op = "GetOriginalURL" /\ ret[t1].arg = <<"1">>
        /\ Response(ret[t1]).status = StatusMovedPermanently
        /\ ret[t2].op = "GetOriginalURL" /\ ret[t2].arg = <<"2">>
        /\ Response(ret[t2]).status = StatusNotFound
        /\ Len(heap) = 1
        /\ heap[1].AccessCount = 1

C34_Errors == {ErrNil, StorageErrURLNotFound}

\* C34: create never fails inside the registry: a Save that has returned,
\* whatever string it was given and whatever ran beside it, returned a nil
\* error and a stored record that holds the string as its OriginalURL; no
\* registry method returns, or holds as its pending result, an error other
\* than ErrURLNotFound, ErrURLExists in particular.
C34_SaveNeverFails ==
    \A t \in Threads :
        /\ ret[t].op = "Save"
              => /\ ret[t].err = ErrNil
                 /\ ret[t].rec \in Ptrs
                 /\ heap[ret[t].rec].OriginalURL = ret[t].arg
        /\ ret[t].err \in C34_Errors /\ ret[t].err # ErrURLExists
        /\ err[t] \in C34_Errors /\ err[t] # ErrURLExists
        /\ pc[t] = "save_unlock" => err[t] = ErrNil /\ loc[t] \in Ptrs

\* A Save of the empty string has returned record 1, the only one after three
\* calls, and a call of another method has returned ErrURLNotFound.
C34_Witness ==
    \E t1, t2 \in Threads :
        /\ ret[t1].op = "Save" /\ ret[t1].arg = <<>>
        /\ heap[ret[t1].rec].ID = 1
        /\ Len(heap) = 1
        /\ calls = 3
        /\ ret[t2].op \in {"GetByShortCode", "GetByID", "IncrementAccessCount"}
        /\ ret[t2].err = StorageErrURLNotFound

\* a well-formed code that no id encodes to
C33_NotCanonical(c) == IsValidBase62(c) /\ EncodeBase62(DecodeBase62(c)) # c
C33_Lookups == {"GetByShortCode", "GetOriginalURL", "GetURLInfo"}

\* C33: lookup is by the exact code string: GetByShortCode, GetOriginalURL
\* and GetURLInfo answer a well-formed code that is not the encoding of an id
\* ("01", "001") with their not-found error, although it decodes to the id of
\* a stored record, and no access is counted for it: the call never reaches
\* IncrementAccessCount and no count of an increment or a redirect is kept
\* under such a code.
C33_ExactCodeLookup ==
    /\ \A t \in Threads :
          /\ (ret[t].op \in C33_Lookups /\ C33_NotCanonical(ret[t].arg))
                => /\ ret[t].err = IF ret[t].op = "GetByShortCode"
                                   THEN StorageErrURLNotFound ELSE ErrURLNotFound
                   /\ ret[t].rec = Nil /\ ret[t].val = Nil
          /\ (pc[t] \in {"inc_lock", "inc_load", "inc_store", "inc_unlock", "info_resp"})
                => ~C33_NotCanonical(req[t])
          /\ (pc[t] = "gsc_runlock" /\ C33_NotCanonical(arg[t]))
                => err[t] = StorageErrURLNotFound
    /\ \A c \in DOMAIN incOK : (incOK[c] # 0 \/ redirOK[c] # 0) => ~C33_NotCanonical(c)
    /\ \A c \in DOMAIN urls : ~C33_NotCanonical(c)

\* The record with id 1 and code "1" is stored; GetByShortCode("001") and
\* GetOriginalURL("01"), both of which decode to 1, were answered not found
\* and the record has no access.
C33_Witness ==
    \E t1, t2 \in Threads :
        /\ Len(heap) = 1 /\ <<"1">> \in DOMAIN urls
        /\ ret[t1].op = "GetByShortCode" /\ ret[t1].arg = <<"0","0","1">>
        /\ ret[t1].err = StorageErrURLNotFound
        /\ ret[t2].op = "GetOriginalURL" /\ ret[t2].arg = <<"0","1">>
        /\ ret[t2].err = ErrURLNotFound
        /\ DecodeBase62(ret[t1].arg) = U64(heap[1].ID)
        /\ DecodeBase62(ret[t2].arg) = U64(heap[1].ID)
        /\ heap[1].AccessCount = 0

\* The accumulation from the leftmost character on, result = result*62 +
\* value with the character's place in the alphabet as its value, in 64-bit
\* arithmetic
RECURSIVE C32_Accumulate(_, _, _)
C32_Accumulate(s, i, result) ==
    IF i > Len(s) THEN result
    ELSE C32_Accumulate(s, i + 1, Add64(Mul64(result, base), U64(CharIndex(s[i]) - 1)))

\* C32: for every string of characters of the alphabet DecodeBase62, which
\* sums value times a running power of 62 from the right, returns what the
\* accumulation result = result*62 + value from the left returns, both in
\* 64-bit wraparound arithmetic, for strings with "0" in front and strings
\* that decode past 2^64 as well.
C32_DecodeEquivalence ==
    \A t \in Threads :
        (ret[t].op = "DecodeBase62" /\ IsValidBase62(ret[t].arg))
            => ret[t].val = C32_Accumulate(ret[t].arg, 1, Zero64)

\* "0" followed by eleven "Z", which has a 0 in front and is 62^11 - 1, past
\* 2^64, was decoded.
C32_Witness ==
    \E t \in Threads :
        /\ ret[t].op = "DecodeBase62"
        /\ Len(ret[t].arg) = 12
        /\ ret[t].arg[1] = "0"
        /\ \A i \in 2..12 : ret[t].arg[i] = "Z"
        /\ ret[t].val = C32_Accumulate(ret[t].arg, 1, Zero64)
        /\ ret[t].val # Zero64

\* a goroutine outside every call holds the lock in no mode
C31_Released ==
    /\ \A t \in Threads : pc[t] = "idle" => t \notin mutex.r /\ mutex.w # t
    /\ mutex.w # 0 => pc[mutex.w] # "idle"

\* while a call is under way some goroutine can take a step
C31_NoDeadlock ==
    (\E t \in Threads : pc[t] # "idle") => \E t \in Threads : ENABLED RegistryStep(t)

\* C31: every operation completes: under fair scheduling of goroutines that
\* make finitely many calls, the registry never deadlocks and every call of
\* Save, GetByShortCode, GetByID, IncrementAccessCount and GetStats, on the
\* duplicate and the not-found paths too, returns, its goroutine holding the
\* lock no longer.
C31_EveryCallReturns ==
    /\ [](C31_Released /\ C31_NoDeadlock)
    /\ \A t \in Threads : (pc[t] # "idle") ~> (pc[t] = "idle")

\* Every call that will be made has been made and has returned: a Save with
\* the record it stored, an increment of an absent code with ErrURLNotFound,
\* and the lock is held by nobody.
C31_Witness ==
    \E t1, t2 \in Threads :
        /\ calls = MaxCalls
        /\ \A t \in Threads : pc[t] = "idle"
        /\ mutex.r = {} /\ mutex.w = 0
        /\ ret[t1].op = "Save" /\ ret[t1].err = ErrNil
        /\ ret[t2].op = "IncrementAccessCount"
        /\ ret[t2].err = StorageErrURLNotFound

====
